---- MODULE Spec2Model ----
(***************************************************************************)
(* Model of the dependency-graph engine of tree-core (dependencyGraph.ts). *)
(*                                                                         *)
(* JavaScript Map and Set iterate in insertion order, and the code's       *)
(* results depend on that order (the build order, the package a cycle      *)
(* error names).  A Map is therefore a sequence of <<key, value>> entries  *)
(* with distinct keys, and a Set that the code iterates is a sequence      *)
(* without duplicates.  The sets `visited` and `visiting`, which the code  *)
(* only tests for membership, are plain sets.                              *)
(***************************************************************************)
EXTENDS Integers, Sequences, FiniteSets, TLC

VARIABLES
    graph,      \* the DependencyGraph the caller holds, or NoGraph
    origin,     \* the function that returned graph, or "none"
    building,   \* the buildDependencyGraph call in progress, or Idle
    call,       \* the last completed call on the graph: [op, arg, out], or NoCall
    sorting,    \* the topologicalSort call followed statement by statement, or Idle
    traversing, \* the findAllDependents call followed statement by statement, or Idle
    builds,     \* two buildDependencyGraph calls in progress at once, or Idle
    scanning,   \* the scanForPackageJsonFiles call followed await by await, or Idle
    disk        \* the file system the scan reads, or NoDisk

\* The calls that are followed inside, one specification each.
stepwise == <<sorting, traversing, builds, scanning, disk>>

vars == <<graph, origin, building, call, sorting, traversing, builds, scanning, disk>>

-----------------------------------------------------------------------------
(* Bounds of the model.                                                    *)

\* Package names of the workspace.
Names == {"a", "b", "c"}

\* Longest dependency list of one package.
MaxDeps == 2

\* Longest list of manifest paths given to buildDependencyGraph.
MaxManifests == 3

\* Most dependency entries declared by the manifests of one build.
MaxDeclared == 2

\* Longest list of manifest paths of each of two concurrent builds.
MaxPaths == 2

\* Writes and removals of a package.json by other callbacks during one scan.
MaxDiskChanges == 1

-----------------------------------------------------------------------------
(* JavaScript collections.                                                 *)

Range(s) == {s[i] : i \in 1..Len(s)}

\* Index of the first occurrence of x in s, 0 when absent (indexOf + 1).
IndexOf(s, x) ==
    IF x \in Range(s) THEN CHOOSE i \in 1..Len(s) : s[i] = x /\ \A j \in 1..(i - 1) : s[j] # x
    ELSE 0

\* Set.prototype.has / add on an insertion-ordered Set.
SetHas(s, x) == x \in Range(s)
SetAdd(s, x) == IF SetHas(s, x) THEN s ELSE Append(s, x)

\* new Set(iterable): duplicates dropped, first occurrences keep their order.
RECURSIVE SetFromArray(_, _, _)
SetFromArray(arr, i, acc) ==
    IF i > Len(arr) THEN acc ELSE SetFromArray(arr, i + 1, SetAdd(acc, arr[i]))
NewSet(arr) == SetFromArray(arr, 1, <<>>)

\* Array.from(set): the elements in iteration order.
ArrayFrom(s) == [i \in 1..Len(s) |-> s[i]]

\* Map.prototype.keys / has / get / set on an insertion-ordered Map.
MapKeys(m) == [i \in 1..Len(m) |-> m[i][1]]
MapHas(m, k) == \E i \in 1..Len(m) : m[i][1] = k
MapGet(m, k) == m[CHOOSE i \in 1..Len(m) : m[i][1] = k][2]
MapSet(m, k, v) ==
    IF MapHas(m, k)
    THEN [i \in 1..Len(m) |-> IF m[i][1] = k THEN <<k, v>> ELSE m[i]]
    ELSE Append(m, <<k, v>>)

\* The target set of key k in an edge map, an absent key counting as empty.
Targets(m, k) == IF MapHas(m, k) THEN Range(MapGet(m, k)) ELSE {}

-----------------------------------------------------------------------------
(* buildReverseGraph (package -> dependents).                              *)

\* Variant of ReverseAdd that replaces the set of dep by {pkg}.
ReverseAdd_Overwrite(reverse, dep, pkg) == MapSet(reverse, dep, <<pkg>>)

\* reverse.get(dep).add(pkg), after creating the set of dep when it is new.
ReverseAdd(reverse, dep, pkg) ==
    LET created == IF ~MapHas(reverse, dep) THEN MapSet(reverse, dep, <<>>) ELSE reverse
    IN  MapSet(created, dep, SetAdd(MapGet(created, dep), pkg))

\* The inner loop: for (const dep of deps).
RECURSIVE ReverseDeps(_, _, _, _)
ReverseDeps(reverse, pkg, deps, j) ==
    IF j > Len(deps) THEN reverse
    ELSE ReverseDeps(ReverseAdd(reverse, deps[j], pkg), pkg, deps, j + 1)

\* The outer loop: for (const [pkg, deps] of edges).
RECURSIVE ReverseEntries(_, _, _)
ReverseEntries(reverse, edges, i) ==
    IF i > Len(edges) THEN reverse
    ELSE ReverseEntries(ReverseDeps(reverse, edges[i][1], edges[i][2], 1), edges, i + 1)

\* Variant of buildReverseGraph that starts with an empty set for every
\* key of edges.
buildReverseGraph_Seeded(edges) ==
    ReverseEntries([i \in 1..Len(edges) |-> <<edges[i][1], <<>>>>], edges, 1)

buildReverseGraph(edges) == ReverseEntries(<<>>, edges, 1)

-----------------------------------------------------------------------------
(* topologicalSort.                                                        *)

NoError == "none"

\* `Circular dependency detected involving package: ${packageName}`, as the
\* fragments of the template.
CircularMessage(packageName) ==
    <<"Circular dependency", " detected involving package: ", packageName>>

\* The closure state of one topologicalSort call; `thrown` is the package
\* named by the Error that is propagating, or NoError.
SortStart == [visited |-> {}, visiting |-> {}, result |-> <<>>, thrown |-> NoError]

\* Variant of VisitDone that puts the package in front of the result.
VisitDone_Unshift(st, packageName) ==
    [st EXCEPT !.visiting = @ \ {packageName},
               !.visited = @ \cup {packageName},
               !.result = <<packageName>> \o @]

\* Variant of VisitDone that leaves the package marked as in progress.
VisitDone_StaysVisiting(st, packageName) ==
    [st EXCEPT !.visited = @ \cup {packageName},
               !.result = Append(@, packageName)]

\* The bookkeeping of visit once all dependencies have returned.
VisitDone(st, packageName) ==
    [st EXCEPT !.visiting = @ \ {packageName},
               !.visited = @ \cup {packageName},
               !.result = Append(@, packageName)]

\* edges.get(packageName) || new Set()
DepsOf(edges, packageName) ==
    IF MapHas(edges, packageName) THEN MapGet(edges, packageName) ELSE <<>>

RECURSIVE visit(_, _, _)
RECURSIVE VisitDeps(_, _, _, _)

\* Variant of visit with one mark for in-progress and done packages.
visit_OneMark(edges, st, packageName) ==
    IF packageName \in st.visited \cup st.visiting THEN st
    ELSE LET entered == [st EXCEPT !.visiting = @ \cup {packageName}]
             after == VisitDeps(edges, entered, DepsOf(edges, packageName), 1)
         IN  IF after.thrown # NoError THEN after ELSE VisitDone(after, packageName)

\* const visit = (packageName) => { ... }
visit(edges, st, packageName) ==
    IF packageName \in st.visited THEN st
    ELSE IF packageName \in st.visiting THEN [st EXCEPT !.thrown = packageName]
    ELSE LET entered == [st EXCEPT !.visiting = @ \cup {packageName}]
             after == VisitDeps(edges, entered, DepsOf(edges, packageName), 1)
         IN  IF after.thrown # NoError THEN after ELSE VisitDone(after, packageName)

\* for (const dep of deps) visit(dep); a throw leaves the loop.
VisitDeps(edges, st, deps, j) ==
    IF j > Len(deps) \/ st.thrown # NoError THEN st
    ELSE VisitDeps(edges, visit(edges, st, deps[j]), deps, j + 1)

\* for (const packageName of packages.keys()) if (!visited.has(..)) visit(..)
RECURSIVE VisitRoots(_, _, _, _)
VisitRoots(edges, st, keys, i) ==
    IF i > Len(keys) \/ st.thrown # NoError THEN st
    ELSE IF keys[i] \in st.visited THEN VisitRoots(edges, st, keys, i + 1)
    ELSE VisitRoots(edges, visit(edges, st, keys[i]), keys, i + 1)

\* Variant of topologicalSort whose error names the root package whose
\* traversal found the cycle.
topologicalSort_NamesRoot(g) ==
    LET keys == MapKeys(g.packages)
        final == VisitRoots(g.edges, SortStart, keys, 1)
        root == keys[CHOOSE i \in 1..Len(keys) :
                        /\ keys[i] \notin final.visited
                        /\ \A j \in 1..(i - 1) : keys[j] \in final.visited]
    IN  IF final.thrown # NoError
        THEN [ok |-> FALSE, message |-> CircularMessage(root)]
        ELSE [ok |-> TRUE, order |-> final.result]

\* Returns [ok |-> TRUE, order] or, for a thrown Error, [ok |-> FALSE, message].
topologicalSort(g) ==
    LET final == VisitRoots(g.edges, SortStart, MapKeys(g.packages), 1)
    IN  IF final.thrown # NoError
        THEN [ok |-> FALSE, message |-> CircularMessage(final.thrown)]
        ELSE [ok |-> TRUE, order |-> final.result]

-----------------------------------------------------------------------------
(* findAllDependents.                                                      *)

\* graph.reverseEdges.get(pkg) || new Set()
DirectDependents(reverseEdges, pkg) ==
    IF MapHas(reverseEdges, pkg) THEN MapGet(reverseEdges, pkg) ELSE <<>>

RECURSIVE traverse(_, _, _)
RECURSIVE TraverseDependents(_, _, _, _)

\* const traverse = (pkg) => { ... }; st is [dependents, visited].
traverse(reverseEdges, st, pkg) ==
    IF pkg \in st.visited THEN st
    ELSE TraverseDependents(reverseEdges, [st EXCEPT !.visited = @ \cup {pkg}],
                            DirectDependents(reverseEdges, pkg), 1)

\* Variant of the loop that adds a dependent only when it is not visited yet.
TraverseDependents_SkipVisited(reverseEdges, st, ds, j) ==
    IF j > Len(ds) THEN st
    ELSE TraverseDependents(
             reverseEdges,
             IF ds[j] \in st.visited THEN st
             ELSE traverse(reverseEdges, [st EXCEPT !.dependents = SetAdd(@, ds[j])], ds[j]),
             ds, j + 1)

\* for (const dependent of directDependents) { dependents.add; traverse }
TraverseDependents(reverseEdges, st, ds, j) ==
    IF j > Len(ds) THEN st
    ELSE TraverseDependents(
             reverseEdges,
             traverse(reverseEdges, [st EXCEPT !.dependents = SetAdd(@, ds[j])], ds[j]),
             ds, j + 1)

\* Variant of findAllDependents without the transitive step.
findAllDependents_DirectOnly(packageName, g) ==
    DirectDependents(g.reverseEdges, packageName)

\* Variant of findAllDependents whose result starts with the package itself.
findAllDependents_WithStart(packageName, g) ==
    traverse(g.reverseEdges, [dependents |-> <<packageName>>, visited |-> {}],
             packageName).dependents

findAllDependents(packageName, g) ==
    traverse(g.reverseEdges, [dependents |-> <<>>, visited |-> {}], packageName).dependents

-----------------------------------------------------------------------------
(* serializeGraph / deserializeGraph.                                      *)

\* One record of SerializedGraph.packages.
SerializePackage(pkg) ==
    [name |-> pkg.name, version |-> pkg.version, path |-> pkg.path,
     dependencies |-> ArrayFrom(pkg.dependencies)]

\* Variant of SerializeEdge that writes the dependencies last to first.
SerializeEdge_Reversed(entry) ==
    <<entry[1], [i \in 1..Len(entry[2]) |-> entry[2][Len(entry[2]) + 1 - i]]>>

\* One pair of SerializedGraph.edges.
SerializeEdge(entry) == <<entry[1], ArrayFrom(entry[2])>>

\* Variant of serializeGraph that writes no pair for an empty edge set.
serializeGraph_SkipsEmpty(g) ==
    [packages |-> [i \in 1..Len(g.packages) |-> SerializePackage(g.packages[i][2])],
     edges |-> SelectSeq([i \in 1..Len(g.edges) |-> SerializeEdge(g.edges[i])],
                         LAMBDA pair : Len(pair[2]) > 0)]

serializeGraph(g) ==
    [packages |-> [i \in 1..Len(g.packages) |-> SerializePackage(g.packages[i][2])],
     edges |-> [i \in 1..Len(g.edges) |-> SerializeEdge(g.edges[i])]]

\* Variant of RestorePackage that takes the persisted dependencies as the
\* local dependencies.
RestorePackage_KeepsLocal(pkg) ==
    [name |-> pkg.name, version |-> pkg.version, path |-> pkg.path,
     dependencies |-> NewSet(pkg.dependencies),
     devDependencies |-> <<>>,
     localDependencies |-> NewSet(pkg.dependencies)]

\* The PackageInfo that deserializeGraph stores for one record.
RestorePackage(pkg) ==
    [name |-> pkg.name, version |-> pkg.version, path |-> pkg.path,
     dependencies |-> NewSet(pkg.dependencies),
     devDependencies |-> <<>>,
     localDependencies |-> <<>>]

\* for (const pkg of serialized.packages) packages.set(pkg.name, {...})
RECURSIVE RestorePackages(_, _, _)
RestorePackages(packages, records, i) ==
    IF i > Len(records) THEN packages
    ELSE RestorePackages(MapSet(packages, records[i].name, RestorePackage(records[i])),
                         records, i + 1)

\* for (const [pkg, deps] of serialized.edges) edges.set(pkg, new Set(deps))
RECURSIVE RestoreEdges(_, _, _)
RestoreEdges(edges, pairs, i) ==
    IF i > Len(pairs) THEN edges
    ELSE RestoreEdges(MapSet(edges, pairs[i][1], NewSet(pairs[i][2])), pairs, i + 1)

deserializeGraph(serialized) ==
    LET packages == RestorePackages(<<>>, serialized.packages, 1)
        edges == RestoreEdges(<<>>, serialized.edges, 1)
    IN  [packages |-> packages, edges |-> edges, reverseEdges |-> buildReverseGraph(edges)]

-----------------------------------------------------------------------------
(* validateGraph.                                                          *)

\* `Package ${pkg} depends on ${dep} which doesn't exist`
MissingMessage(pkg, dep) == <<"Package ", pkg, " depends on ", dep, " which doesn't exist">>

RECURSIVE CheckTargets(_, _, _, _, _)

\* Variant of CheckTargets that leaves the loop at the first missing target.
CheckTargets_FirstOnly(errors, packages, pkg, deps, j) ==
    IF j > Len(deps) THEN errors
    ELSE IF ~MapHas(packages, deps[j]) THEN Append(errors, MissingMessage(pkg, deps[j]))
    ELSE CheckTargets(errors, packages, pkg, deps, j + 1)

\* The inner loop of the edge-target check.
CheckTargets(errors, packages, pkg, deps, j) ==
    IF j > Len(deps) THEN errors
    ELSE CheckTargets(
             IF ~MapHas(packages, deps[j]) THEN Append(errors, MissingMessage(pkg, deps[j]))
             ELSE errors,
             packages, pkg, deps, j + 1)

\* The outer loop: for (const [pkg, deps] of graph.edges).
RECURSIVE CheckEdges(_, _, _, _)
CheckEdges(errors, packages, edges, i) ==
    IF i > Len(edges) THEN errors
    ELSE CheckEdges(CheckTargets(errors, packages, edges[i][1], edges[i][2], 1),
                    packages, edges, i + 1)

\* Variant of validateGraph without the try/catch around topologicalSort.
validateGraph_NoCatch(g) ==
    LET missing == CheckEdges(<<>>, g.packages, g.edges, 1)
        sorted == topologicalSort(g)
    IN  IF sorted.ok THEN [valid |-> Len(missing) = 0, errors |-> missing]
        ELSE [thrown |-> sorted.message]

\* Variant of validateGraph whose valid only tells whether the sort succeeded.
validateGraph_ValidIfSorted(g) ==
    LET missing == CheckEdges(<<>>, g.packages, g.edges, 1)
        sorted == topologicalSort(g)
        errors == IF sorted.ok THEN missing ELSE Append(missing, sorted.message)
    IN  [valid |-> sorted.ok, errors |-> errors]

\* Variant of validateGraph that checks for cycles before the edge targets.
validateGraph_CycleFirst(g) ==
    LET missing == CheckEdges(<<>>, g.packages, g.edges, 1)
        sorted == topologicalSort(g)
        errors == IF sorted.ok THEN missing ELSE <<sorted.message>> \o missing
    IN  [valid |-> Len(errors) = 0, errors |-> errors]

\* try { topologicalSort(graph) } catch (error) { errors.push(error.message) }
validateGraph(g) ==
    LET missing == CheckEdges(<<>>, g.packages, g.edges, 1)
        sorted == topologicalSort(g)
        errors == IF sorted.ok THEN missing ELSE Append(missing, sorted.message)
    IN  [valid |-> Len(errors) = 0, errors |-> errors]

-----------------------------------------------------------------------------
(* parsePackageJson.                                                       *)

\* A manifest path is its directory and the file name; path.dirname drops
\* the file name.
ManifestPath(dir) == <<dir, "package.json">>
Dirname(packageJsonPath) == packageJsonPath[1]

\* A missing field of package.json.
Absent == ""

\* What storage.readFile / safeJsonParse / validatePackageJson make of a
\* file that cannot be read or is no valid package.json.
Malformed == [valid |-> FALSE]

DepTypes == <<"dependencies", "devDependencies", "peerDependencies", "optionalDependencies">>

\* The loop over depTypes: every key goes to `dependencies`, the keys of
\* devDependencies also to `devDependencies`.  acc is [dependencies, devDependencies].
RECURSIVE CollectKeys(_, _, _, _)
CollectKeys(acc, depType, keys, j) ==
    IF j > Len(keys) THEN acc
    ELSE CollectKeys(
             [dependencies |-> SetAdd(acc.dependencies, keys[j]),
              devDependencies |-> IF depType = "devDependencies"
                                  THEN SetAdd(acc.devDependencies, keys[j])
                                  ELSE acc.devDependencies],
             depType, keys, j + 1)

RECURSIVE CollectDepTypes(_, _, _)
CollectDepTypes(acc, packageJson, t) ==
    IF t > Len(DepTypes) THEN acc
    ELSE CollectDepTypes(CollectKeys(acc, DepTypes[t], packageJson[DepTypes[t]], 1),
                         packageJson, t + 1)

\* file is [path, json]: the manifest path and what is on disk there.
\* Returns [ok |-> TRUE, info] or [ok |-> FALSE, error].
parsePackageJson(file) ==
    IF file.json = Malformed THEN [ok |-> FALSE, error |-> <<"invalid", file.path>>]
    ELSE IF file.json.name = Absent
    THEN [ok |-> FALSE, error |-> <<"Package at ", file.path, " has no name field">>]
    ELSE LET deps == CollectDepTypes([dependencies |-> <<>>, devDependencies |-> <<>>],
                                     file.json, 1)
         IN  [ok |-> TRUE,
              info |-> [name |-> file.json.name,
                        version |-> IF file.json.version = Absent THEN "0.0.0"
                                    ELSE file.json.version,
                        path |-> Dirname(file.path),
                        dependencies |-> deps.dependencies,
                        devDependencies |-> deps.devDependencies,
                        localDependencies |-> <<>>]]

-----------------------------------------------------------------------------
(* Strings of the scan.  A JavaScript string is the sequence of its        *)
(* characters, each a string of length one; a path is such a string.       *)

\* The printable characters in the order of their char codes, 32 to 126
\* ("grave" keeps the place of the grave accent, char code 96).
Ascii ==
    <<
      " ", "!", "\"", "#", "$", "%", "&", "'", "(", ")", "*", "+",
      ",", "-", ".", "/", "0", "1", "2", "3", "4", "5", "6", "7",
      "8", "9", ":", ";", "<", "=", ">", "?", "@", "A", "B", "C",
      "D", "E", "F", "G", "H", "I", "J", "K", "L", "M", "N", "O",
      "P", "Q", "R", "S", "T", "U", "V", "W", "X", "Y", "Z", "[",
      "\\", "]", "^", "_", "grave", "a", "b", "c", "d", "e", "f", "g",
      "h", "i", "j", "k", "l", "m", "n", "o", "p", "q", "r", "s",
      "t", "u", "v", "w", "x", "y", "z", "{", "|", "}", "~">>

\* charCodeAt of a printable character.
Code(c) == 31 + CHOOSE k \in 1..Len(Ascii) : Ascii[k] = c

\* s.replace(/from/g, to) for a literal from: every occurrence from left to
\* right, the search resuming behind the occurrence replaced.
RECURSIVE ReplaceAll(_, _, _, _)
ReplaceAll(s, from, to, i) ==
    IF i > Len(s) THEN <<>>
    ELSE IF i + Len(from) - 1 <= Len(s) /\ SubSeq(s, i, i + Len(from) - 1) = from
    THEN to \o ReplaceAll(s, from, to, i + Len(from))
    ELSE <<s[i]>> \o ReplaceAll(s, from, to, i + 1)

\* process.cwd() of the caller, an absolute normalized path.
Cwd == <<"/", "w", "o", "r", "k", "s", "p", "a", "c", "e">>

\* The position of the last "/" of p at or before position i, 0 if none.
RECURSIVE LastSlash(_, _)
LastSlash(p, i) ==
    IF i = 0 THEN 0 ELSE IF p[i] = "/" THEN i ELSE LastSlash(p, i - 1)

\* p without its trailing "/" characters.
RECURSIVE StripSlashes(_)
StripSlashes(p) ==
    IF Len(p) > 0 /\ p[Len(p)] = "/" THEN StripSlashes(SubSeq(p, 1, Len(p) - 1)) ELSE p

\* path.basename(p): what follows the last "/" of p, trailing "/" apart.
basename(p) ==
    LET Last(q) == SubSeq(q, LastSlash(q, Len(q)) + 1, Len(q))
    IN  Last(StripSlashes(p))

\* The loop of path.dirname, from the last character down to the second:
\* the position of the first "/" met after a character that is none, 0 if
\* there is none.  The first character is not looked at.
RECURSIVE DirnameEnd(_, _, _)
DirnameEnd(p, i, matchedSlash) ==
    IF i < 2 THEN 0
    ELSE IF p[i] = "/"
    THEN IF ~matchedSlash THEN i ELSE DirnameEnd(p, i - 1, TRUE)
    ELSE DirnameEnd(p, i - 1, FALSE)

\* path.dirname(p).
dirname(p) ==
    LET Slice(end) ==
            IF end = 0 THEN (IF p[1] = "/" THEN <<"/">> ELSE <<".">>)
            ELSE IF p[1] = "/" /\ end = 2 THEN <<"/", "/">>
            ELSE SubSeq(p, 1, end - 1)
    IN  IF Len(p) = 0 THEN <<".">> ELSE Slice(DirnameEnd(p, Len(p), TRUE))

\* The segments of p between its "/" characters, empty ones left out.
RECURSIVE SegmentsOf(_, _, _)
SegmentsOf(p, i, segment) ==
    IF i > Len(p) THEN (IF segment = <<>> THEN <<>> ELSE <<segment>>)
    ELSE IF p[i] = "/"
    THEN (IF segment = <<>> THEN <<>> ELSE <<segment>>) \o SegmentsOf(p, i + 1, <<>>)
    ELSE SegmentsOf(p, i + 1, Append(segment, p[i]))

\* segments joined with "/".
RECURSIVE JoinSegments(_)
JoinSegments(segments) ==
    IF Len(segments) = 0 THEN <<>>
    ELSE IF Len(segments) = 1 THEN segments[1]
    ELSE segments[1] \o <<"/">> \o JoinSegments(Tail(segments))

\* normalizeString of Node's path module on the segments from k on: "."
\* is dropped, ".." takes the segment before it away unless that is ".."
\* or there is none, and is then kept only when allowAboveRoot.
RECURSIVE NormalizeSegments(_, _, _, _)
NormalizeSegments(segments, k, res, allowAboveRoot) ==
    IF k > Len(segments) THEN res
    ELSE IF segments[k] = <<".">>
    THEN NormalizeSegments(segments, k + 1, res, allowAboveRoot)
    ELSE IF segments[k] = <<".", ".">>
    THEN IF Len(res) > 0 /\ res[Len(res)] # <<".", ".">>
         THEN NormalizeSegments(segments, k + 1, SubSeq(res, 1, Len(res) - 1),
                                allowAboveRoot)
         ELSE IF allowAboveRoot
         THEN NormalizeSegments(segments, k + 1, Append(res, segments[k]),
                                allowAboveRoot)
         ELSE NormalizeSegments(segments, k + 1, res, allowAboveRoot)
    ELSE NormalizeSegments(segments, k + 1, Append(res, segments[k]), allowAboveRoot)

\* path.normalize(p).
normalize(p) ==
    LET Put(isAbsolute, trailingSeparator, body) ==
            IF Len(body) = 0
            THEN IF isAbsolute THEN <<"/">>
                 ELSE IF trailingSeparator THEN <<".", "/">> ELSE <<".">>
            ELSE (IF isAbsolute THEN <<"/">> ELSE <<>>) \o body
                 \o (IF trailingSeparator THEN <<"/">> ELSE <<>>)
    IN  IF Len(p) = 0 THEN <<".">>
        ELSE Put(p[1] = "/", p[Len(p)] = "/",
                 JoinSegments(NormalizeSegments(SegmentsOf(p, 1, <<>>), 1, <<>>,
                                                p[1] # "/")))

\* path.join(a, b): the arguments that are not empty, joined with "/" and
\* normalized.
join(a, b) ==
    IF Len(a) = 0 /\ Len(b) = 0 THEN <<".">>
    ELSE IF Len(a) = 0 THEN normalize(b)
    ELSE IF Len(b) = 0 THEN normalize(a)
    ELSE normalize(a \o <<"/">> \o b)

\* path.resolve(p): p, taken from the working directory unless it is
\* absolute, normalized and without a trailing "/".
resolve(p) ==
    <<"/">> \o JoinSegments(NormalizeSegments(
                  SegmentsOf(IF Len(p) > 0 /\ p[1] = "/" THEN p
                             ELSE Cwd \o <<"/">> \o p, 1, <<>>),
                  1, <<>>, FALSE))

\* The number of leading segments a and b share.
RECURSIVE CommonPrefix(_, _)
CommonPrefix(a, b) ==
    IF Len(a) > 0 /\ Len(b) > 0 /\ a[1] = b[1]
    THEN 1 + CommonPrefix(Tail(a), Tail(b))
    ELSE 0

\* path.relative(from, to): both are resolved; then ".." for every segment
\* of from behind the common prefix, and the rest of to.
relative(from, to) ==
    LET Up(a, b, n) ==
            JoinSegments([k \in 1..(Len(a) - n) |-> <<".", ".">>] \o SubSeq(b, n + 1, Len(b)))
        Between(a, b) == Up(a, b, CommonPrefix(a, b))
    IN  IF from = to THEN <<>>
        ELSE Between(SegmentsOf(resolve(from), 1, <<>>),
                     SegmentsOf(resolve(to), 1, <<>>))

-----------------------------------------------------------------------------
(* new RegExp(source) and regex.test(string) for the regular expressions   *)
(* matchesPattern can build: alternatives, groups, character classes with  *)
(* ranges, the quantifiers * + ? and {n,m}, the assertions ^ and $, the    *)
(* dot and escaped characters.  A pattern is parsed into a tree; a source  *)
(* that is no regular expression gives SyntaxError.                        *)

SyntaxError == [ok |-> FALSE, error |-> "SyntaxError"]

Digits == {"0", "1", "2", "3", "4", "5", "6", "7", "8", "9"}
Unbounded == 0 - 1

\* The decimal number whose digits are r[i..j-1]; value is the number read
\* so far.
RECURSIVE ReadNumber(_, _, _)
ReadNumber(r, i, value) ==
    IF i <= Len(r) /\ r[i] \in Digits
    THEN ReadNumber(r, i + 1, 10 * value + (Code(r[i]) - 48))
    ELSE [value |-> value, next |-> i]

\* The position behind a lazy "?" at position j of r, if one is there.
Lazy(r, j) == IF j <= Len(r) /\ r[j] = "?" THEN j + 1 ELSE j

NoQuantifier(i) == [kind |-> "none", min |-> 0, max |-> 0, next |-> i]

\* The quantifier {lo,hi} at position i of r, hi being the number read
\* behind the comma.
BraceRange(r, i, lo, hi) ==
    IF hi.next <= Len(r) /\ r[hi.next] = "}"
    THEN IF hi.value < lo.value
         THEN [kind |-> "error", min |-> 0, max |-> 0, next |-> i]
         ELSE [kind |-> "quantifier", min |-> lo.value, max |-> hi.value,
               next |-> Lazy(r, hi.next + 1)]
    ELSE NoQuantifier(i)

\* The quantifier {lo}, {lo,} or {lo,hi} at position i of r, lo being the
\* number read behind the brace; a brace that opens none of them stands for
\* itself.
BraceQuantifier(r, i, lo) ==
    IF lo.next <= Len(r) /\ r[lo.next] = "}"
    THEN [kind |-> "quantifier", min |-> lo.value, max |-> lo.value,
          next |-> Lazy(r, lo.next + 1)]
    ELSE IF lo.next + 1 <= Len(r) /\ r[lo.next] = "," /\ r[lo.next + 1] = "}"
    THEN [kind |-> "quantifier", min |-> lo.value, max |-> Unbounded,
          next |-> Lazy(r, lo.next + 2)]
    ELSE IF lo.next + 1 <= Len(r) /\ r[lo.next] = "," /\ r[lo.next + 1] \in Digits
    THEN BraceRange(r, i, lo, ReadNumber(r, lo.next + 1, 0))
    ELSE NoQuantifier(i)

\* The quantifier at position i of r, if one is there: kind is "none",
\* "quantifier" (with min, max and the position behind it, a lazy "?"
\* included) or "error" (numbers out of order).
Quantifier(r, i) ==
    IF i > Len(r) THEN NoQuantifier(i)
    ELSE IF r[i] = "*"
    THEN [kind |-> "quantifier", min |-> 0, max |-> Unbounded, next |-> Lazy(r, i + 1)]
    ELSE IF r[i] = "+"
    THEN [kind |-> "quantifier", min |-> 1, max |-> Unbounded, next |-> Lazy(r, i + 1)]
    ELSE IF r[i] = "?"
    THEN [kind |-> "quantifier", min |-> 0, max |-> 1, next |-> Lazy(r, i + 1)]
    ELSE IF r[i] = "{" /\ i + 1 <= Len(r) /\ r[i + 1] \in Digits
    THEN BraceQuantifier(r, i, ReadNumber(r, i + 1, 0))
    ELSE NoQuantifier(i)

\* The class member at position j of r: a character, or an escaped one.
ClassAtom(r, j) ==
    IF r[j] = "\\" THEN [c |-> r[j + 1], next |-> j + 2]
    ELSE [c |-> r[j], next |-> j + 1]

\* The members of a character class from position j of r up to its "]":
\* single characters and ranges, as pairs of char codes.
RECURSIVE ClassRanges(_, _, _)
ClassRanges(r, j, ranges) ==
    IF j > Len(r) THEN SyntaxError
    ELSE IF r[j] = "]" THEN [ok |-> TRUE, ranges |-> ranges, next |-> j + 1]
    ELSE IF r[j] = "\\" /\ j = Len(r) THEN SyntaxError
    ELSE LET Through(lo, hi) ==
                 IF Code(hi.c) < Code(lo.c) THEN SyntaxError
                 ELSE ClassRanges(r, hi.next, ranges \cup {<<Code(lo.c), Code(hi.c)>>})
             Member(lo) ==
                 IF lo.next + 1 <= Len(r) /\ r[lo.next] = "-" /\ r[lo.next + 1] # "]"
                 THEN IF r[lo.next + 1] = "\\" /\ lo.next + 1 = Len(r) THEN SyntaxError
                      ELSE Through(lo, ClassAtom(r, lo.next + 1))
                 ELSE ClassRanges(r, lo.next, ranges \cup {<<Code(lo.c), Code(lo.c)>>})
         IN  Member(ClassAtom(r, j))

RECURSIVE ParseDisjunction(_, _, _)
RECURSIVE ParseAlternative(_, _, _)

\* The group whose alternatives d were parsed up to its ")".
Group(r, d) ==
    IF ~d.ok THEN SyntaxError
    ELSE IF d.next > Len(r) \/ r[d.next] # ")" THEN SyntaxError
    ELSE [ok |-> TRUE, node |-> d.node, next |-> d.next + 1]

\* The character class whose members c were parsed up to its "]".
Class(negated, c) ==
    IF ~c.ok THEN SyntaxError
    ELSE [ok |-> TRUE,
          node |-> [t |-> "class", negated |-> negated, ranges |-> c.ranges],
          next |-> c.next]

\* One atom of r at position i: a group, a class, an escaped character, the
\* dot or a character that stands for itself.
ParseAtom(r, i) ==
    IF r[i] = "("
    THEN Group(r, ParseDisjunction(r, i + 1, <<>>))
    ELSE IF r[i] = "["
    THEN IF i + 1 <= Len(r) /\ r[i + 1] = "^"
         THEN Class(TRUE, ClassRanges(r, i + 2, {}))
         ELSE Class(FALSE, ClassRanges(r, i + 1, {}))
    ELSE IF r[i] = "\\"
    THEN IF i = Len(r) THEN SyntaxError
         ELSE [ok |-> TRUE, node |-> [t |-> "char", c |-> r[i + 1]], next |-> i + 2]
    ELSE IF r[i] = "."
    THEN [ok |-> TRUE, node |-> [t |-> "any"], next |-> i + 1]
    ELSE IF r[i] \in {"*", "+", "?"} \/ Quantifier(r, i).kind # "none"
    THEN SyntaxError
    ELSE [ok |-> TRUE, node |-> [t |-> "char", c |-> r[i]], next |-> i + 1]

\* The atom a with the quantifier q that follows it.
Quantified(a, q) ==
    IF q.kind = "error" THEN SyntaxError
    ELSE IF q.kind = "none" THEN a
    ELSE [ok |-> TRUE,
          node |-> [t |-> "rep", sub |-> a.node, min |-> q.min, max |-> q.max],
          next |-> q.next]

\* One term of r at position i: an assertion, or an atom and its
\* quantifier.  Nothing may be repeated that is no atom.
ParseTerm(r, i) ==
    IF r[i] \in {"^", "$"}
    THEN IF Quantifier(r, i + 1).kind # "none" THEN SyntaxError
         ELSE [ok |-> TRUE, node |-> [t |-> IF r[i] = "^" THEN "bol" ELSE "eol"],
               next |-> i + 1]
    ELSE LET WithQuantifier(a) ==
                 IF ~a.ok THEN SyntaxError ELSE Quantified(a, Quantifier(r, a.next))
         IN  WithQuantifier(ParseAtom(r, i))

\* The terms of one alternative, up to "|", ")" or the end.
ParseAlternative(r, i, items) ==
    IF i > Len(r) \/ r[i] \in {"|", ")"}
    THEN [ok |-> TRUE, node |-> [t |-> "cat", items |-> items], next |-> i]
    ELSE LET After(term) ==
                 IF ~term.ok THEN SyntaxError
                 ELSE ParseAlternative(r, term.next, Append(items, term.node))
         IN  After(ParseTerm(r, i))

\* The alternatives separated by "|".
ParseDisjunction(r, i, alternatives) ==
    LET After(a) ==
            IF ~a.ok THEN SyntaxError
            ELSE IF a.next <= Len(r) /\ r[a.next] = "|"
            THEN ParseDisjunction(r, a.next + 1, Append(alternatives, a.node))
            ELSE [ok |-> TRUE,
                  node |-> [t |-> "alt", items |-> Append(alternatives, a.node)],
                  next |-> a.next]
    IN  After(ParseAlternative(r, i, <<>>))

\* The expression whose alternatives d were parsed: a ")" that closes
\* nothing ends the parse before the end of the source.
Parsed(source, d) ==
    IF ~d.ok THEN SyntaxError
    ELSE IF d.next <= Len(source) THEN SyntaxError
    ELSE [ok |-> TRUE, node |-> d.node]

\* new RegExp(source): [ok |-> TRUE, node] or SyntaxError.
RegExp(source) == Parsed(source, ParseDisjunction(source, 1, <<>>))

RECURSIVE Ends(_, _, _)
RECURSIVE EndsCat(_, _, _, _)
RECURSIVE Repeat(_, _, _, _, _)

\* The positions behind a match of node that starts at position i of s.
Ends(node, s, i) ==
    IF node.t = "char"
    THEN IF i <= Len(s) /\ s[i] = node.c THEN {i + 1} ELSE {}
    ELSE IF node.t = "any"
    THEN IF i <= Len(s) THEN {i + 1} ELSE {}
    ELSE IF node.t = "class"
    THEN IF i <= Len(s)
            /\ ((\E range \in node.ranges :
                    range[1] <= Code(s[i]) /\ Code(s[i]) <= range[2]) # node.negated)
         THEN {i + 1} ELSE {}
    ELSE IF node.t = "bol" THEN (IF i = 1 THEN {i} ELSE {})
    ELSE IF node.t = "eol" THEN (IF i = Len(s) + 1 THEN {i} ELSE {})
    ELSE IF node.t = "cat" THEN EndsCat(node.items, 1, s, {i})
    ELSE IF node.t = "alt"
    THEN UNION {Ends(node.items[k], s, i) : k \in 1..Len(node.items)}
    ELSE Repeat(node, s, {i}, 0, {})

\* The terms of an alternative one after the other, from position k on.
EndsCat(items, k, s, from) ==
    IF k > Len(items) THEN from
    ELSE EndsCat(items, k + 1, s, UNION {Ends(items[k], s, i) : i \in from})

\* from holds the positions behind exactly k repetitions, found those
\* behind an allowed number of repetitions seen so far.
Repeat(node, s, from, k, found) ==
    LET Again(seen, more) ==
            IF from = {} \/ k = node.max THEN seen
            ELSE IF k >= node.min /\ more \subseteq seen THEN seen
            ELSE Repeat(node, s, more, k + 1, seen)
    IN  Again(IF k >= node.min THEN found \cup from ELSE found,
              UNION {Ends(node.sub, s, i) : i \in from})

\* regex.test(s): the expression matches somewhere in s.
test(regex, s) == \E i \in 1..(Len(s) + 1) : Ends(regex.node, s, i) # {}

-----------------------------------------------------------------------------
(* scanForPackageJsonFiles.                                                *)

PackageJsonName == <<"p", "a", "c", "k", "a", "g", "e", ".", "j", "s", "o", "n">>

\* The replacements of matchesPattern, in the order of the code: each works
\* on the result of the one before, so the "*" of the ".*" put in for "**"
\* is replaced in its turn, and every dot put in is escaped at the end.
regexPattern(pattern) ==
    LET escaped == ReplaceAll(pattern, <<"\\">>, <<"\\", "\\">>, 1)
        globstar == ReplaceAll(escaped, <<"*", "*">>, <<".", "*">>, 1)
        star == ReplaceAll(globstar, <<"*">>, <<"[", "^", "/", "]", "*">>, 1)
        question == ReplaceAll(star, <<"?">>, <<".">>, 1)
    IN  ReplaceAll(question, <<".">>, <<"\\", ".">>, 1)

\* regex.test(filePath) || regex.test(path.basename(filePath)), or the
\* SyntaxError of new RegExp.
\* Returns [ok |-> TRUE, value] or SyntaxError when new RegExp throws.
matchesPattern(filePath, pattern) ==
    LET TestBoth(regex) ==
            IF ~regex.ok THEN SyntaxError
            ELSE [ok |-> TRUE,
                  value |-> test(regex, filePath) \/ test(regex, basename(filePath))]
    IN  TestBoth(RegExp(<<"^">> \o regexPattern(pattern) \o <<"$">>))

\* pattern tested on paths[j], paths[j+1], ... until one matches.
RECURSIVE MatchesAny(_, _, _)
MatchesAny(paths, pattern, j) ==
    IF j > Len(paths) THEN [ok |-> TRUE, value |-> FALSE]
    ELSE LET Or(m) == IF ~m.ok \/ m.value THEN m
                      ELSE MatchesAny(paths, pattern, j + 1)
         IN  Or(matchesPattern(paths[j], pattern))

\* excludedPatterns.some(...) from pattern i on.
RECURSIVE SomePattern(_, _, _)
SomePattern(paths, excludedPatterns, i) ==
    IF i > Len(excludedPatterns) THEN [ok |-> TRUE, value |-> FALSE]
    ELSE LET Or(m) == IF ~m.ok \/ m.value THEN m
                      ELSE SomePattern(paths, excludedPatterns, i + 1)
         IN  Or(MatchesAny(paths, excludedPatterns[i], 1))

\* The four paths shouldExclude tests each pattern on.
TestedPaths(packageJsonPath, relativePath) ==
    <<packageJsonPath, relativePath, dirname(packageJsonPath), dirname(relativePath)>>

\* Returns [ok |-> TRUE, value] or SyntaxError.
shouldExclude(packageJsonPath, excludedPatterns) ==
    IF Len(excludedPatterns) = 0 THEN [ok |-> TRUE, value |-> FALSE]
    ELSE SomePattern(TestedPaths(packageJsonPath, relative(Cwd, packageJsonPath)),
                     excludedPatterns, 1)

\* shouldExclude returned false.
Kept(excluded) == excluded.ok /\ ~excluded.value

\* The body of both try blocks around fs.access: the path is pushed when
\* the access resolved and shouldExclude returned false; a rejection and an
\* exception of shouldExclude are both caught and the path is left out.
Found(packageJsonPaths, accessible, packageJsonPath, excludedPatterns) ==
    IF accessible /\ Kept(shouldExclude(packageJsonPath, excludedPatterns))
    THEN Append(packageJsonPaths, packageJsonPath)
    ELSE packageJsonPaths

-----------------------------------------------------------------------------
(* buildDependencyGraph.                                                   *)

\* Variant of AddPackage that keeps the first manifest of a name.
AddPackage_KeepFirst(packages, packageInfo) ==
    IF MapHas(packages, packageInfo.name) THEN packages
    ELSE MapSet(packages, packageInfo.name, packageInfo)

\* First pass, one iteration: packages.set(packageInfo.name, packageInfo).
AddPackage(packages, packageInfo) == MapSet(packages, packageInfo.name, packageInfo)

\* Variant of LocalDeps without the packages.has(dep) test.
LocalDeps_All(acc, packages, deps, j) == deps

\* The dependencies of packageInfo that are keys of packages, in order.
RECURSIVE LocalDeps(_, _, _, _)
LocalDeps(acc, packages, deps, j) ==
    IF j > Len(deps) THEN acc
    ELSE LocalDeps(IF MapHas(packages, deps[j]) THEN SetAdd(acc, deps[j]) ELSE acc,
                   packages, deps, j + 1)

RECURSIVE SecondPass(_, _)

\* Variant of SecondPass whose edge set holds every declared dependency.
SecondPass_DeclaredEdges(st, i) ==
    IF i > Len(st.packages) THEN st
    ELSE LET packageName == st.packages[i][1]
             packageInfo == st.packages[i][2]
             localDeps == LocalDeps(<<>>, st.packages, packageInfo.dependencies, 1)
         IN  SecondPass(
                 [packages |-> MapSet(st.packages, packageName,
                                      [packageInfo EXCEPT !.localDependencies = localDeps]),
                  edges |-> MapSet(st.edges, packageName, packageInfo.dependencies)],
                 i + 1)

\* Variant of SecondPass that does not assign packageInfo.localDependencies.
SecondPass_NoLocal(st, i) ==
    IF i > Len(st.packages) THEN st
    ELSE LET packageName == st.packages[i][1]
             packageInfo == st.packages[i][2]
             localDeps == LocalDeps(<<>>, st.packages, packageInfo.dependencies, 1)
         IN  SecondPass(
                 [packages |-> st.packages,
                  edges |-> MapSet(st.edges, packageName, localDeps)],
                 i + 1)

\* Variant of SecondPass that resolves each package when it is reached,
\* against the packages inserted up to it.
SecondPass_OnlyEarlier(st, i) ==
    IF i > Len(st.packages) THEN st
    ELSE LET packageName == st.packages[i][1]
             packageInfo == st.packages[i][2]
             localDeps == LocalDeps(<<>>, SubSeq(st.packages, 1, i),
                                    packageInfo.dependencies, 1)
         IN  SecondPass(
                 [packages |-> MapSet(st.packages, packageName,
                                      [packageInfo EXCEPT !.localDependencies = localDeps]),
                  edges |-> MapSet(st.edges, packageName, localDeps)],
                 i + 1)

\* Variant of SecondPass that leaves the package's own name out.
SecondPass_OthersOnly(st, i) ==
    IF i > Len(st.packages) THEN st
    ELSE LET packageName == st.packages[i][1]
             packageInfo == st.packages[i][2]
             localDeps == SelectSeq(LocalDeps(<<>>, st.packages,
                                              packageInfo.dependencies, 1),
                                    LAMBDA dep : dep # packageName)
         IN  SecondPass(
                 [packages |-> MapSet(st.packages, packageName,
                                      [packageInfo EXCEPT !.localDependencies = localDeps]),
                  edges |-> MapSet(st.edges, packageName, localDeps)],
                 i + 1)

\* Second pass: st is [packages, edges]; entry i of the package map gets
\* its localDependencies and its edge set.
SecondPass(st, i) ==
    IF i > Len(st.packages) THEN st
    ELSE LET packageName == st.packages[i][1]
             packageInfo == st.packages[i][2]
             localDeps == LocalDeps(<<>>, st.packages, packageInfo.dependencies, 1)
         IN  SecondPass(
                 [packages |-> MapSet(st.packages, packageName,
                                      [packageInfo EXCEPT !.localDependencies = localDeps]),
                  edges |-> MapSet(st.edges, packageName, localDeps)],
                 i + 1)

\* Everything after the first pass: second pass and reverse edges.
ResolveGraph(packages) ==
    LET st == SecondPass([packages |-> packages, edges |-> <<>>], 1)
    IN  [packages |-> st.packages, edges |-> st.edges,
         reverseEdges |-> buildReverseGraph(st.edges)]

\* buildDependencyGraph(packageJsonPaths) run alone from its k-th path on:
\* [ok |-> TRUE, graph], or [ok |-> FALSE, error] for the first rejected
\* manifest.
RECURSIVE BuildFrom(_, _, _)
BuildFrom(packages, files, k) ==
    IF k > Len(files) THEN [ok |-> TRUE, graph |-> ResolveGraph(packages)]
    ELSE LET parsed == parsePackageJson(files[k])
         IN  IF parsed.ok THEN BuildFrom(AddPackage(packages, parsed.info), files, k + 1)
             ELSE [ok |-> FALSE, error |-> parsed.error]

buildDependencyGraph(files) == BuildFrom(<<>>, files, 1)

-----------------------------------------------------------------------------
(* createMockGraph, the graph constructor of the test suite.               *)

\* structure is the sequence of <<name, dependency array>> properties.
MockPackage(name, deps) ==
    [name |-> name, version |-> "1.0.0", path |-> <<"/fake/path", name>>,
     dependencies |-> NewSet(deps),
     devDependencies |-> <<>>,
     localDependencies |-> NewSet(deps)]

RECURSIVE MockEntries(_, _, _)
MockEntries(st, structure, i) ==
    IF i > Len(structure) THEN st
    ELSE MockEntries(
             [packages |-> MapSet(st.packages, structure[i][1],
                                  MockPackage(structure[i][1], structure[i][2])),
              edges |-> MapSet(st.edges, structure[i][1], NewSet(structure[i][2]))],
             structure, i + 1)

createMockGraph(structure) ==
    LET st == MockEntries([packages |-> <<>>, edges |-> <<>>], structure, 1)
    IN  [packages |-> st.packages, edges |-> st.edges,
         reverseEdges |-> buildReverseGraph(st.edges)]

-----------------------------------------------------------------------------
(* Inputs.                                                                 *)

\* Sequences over S without repetition, of length at most n.
RECURSIVE NoRepeat(_, _)
NoRepeat(S, n) ==
    IF n = 0 THEN {<<>>}
    ELSE LET shorter == NoRepeat(S, n - 1)
         IN  shorter \cup
             {Append(p[1], p[2]) : p \in {q \in shorter \X S : q[2] \notin Range(q[1])}}

\* The dependency arrays of one property of a createMockGraph structure.
DepLists == NoRepeat(Names, MaxDeps)

\* The key orders of a structure: any names, in any order.
KeyOrders == NoRepeat(Names, Cardinality(Names))

\* The structures given to createMockGraph: a dependency array may name the
\* package itself, another key, or a name that is no key of the structure.
MockStructures ==
    UNION {{[i \in 1..Len(o) |-> <<o[i], d[i]>>] : d \in [1..Len(o) -> DepLists]} :
           o \in KeyOrders}

\* package.json as validatePackageJson returns it; a dependency map is
\* the sequence of its keys.
PackageJson(name, version, deps, devDeps) ==
    [name |-> name, version |-> version,
     dependencies |-> deps, devDependencies |-> devDeps,
     peerDependencies |-> <<>>, optionalDependencies |-> <<>>]

\* What a manifest can declare with at most n entries, as runtime or
\* development dependencies.
Declarations(n) ==
    {p \in NoRepeat(Names, n) \X NoRepeat(Names, n) : Len(p[1]) + Len(p[2]) <= n}

\* The manifests of the workspace: packages/<name>/package.json with a
\* version for every name, and a vendored copy of package "a", in another
\* directory and without a version field.  (The code only compares names
\* for equality, so which name has the copy does not matter.)
GoodManifests(n) ==
    {[path |-> ManifestPath(<<"packages", name>>),
      json |-> PackageJson(name, "1.0.0", p[1], p[2])] :
         name \in Names, p \in Declarations(n)}
    \cup
    {[path |-> ManifestPath(<<"vendor", "a">>),
      json |-> PackageJson("a", Absent, p[1], p[2])] : p \in Declarations(n)}

\* Manifests that parsePackageJson rejects: no valid JSON, no name field.
BadManifests ==
    {[path |-> ManifestPath(<<"packages", "broken">>), json |-> Malformed],
     [path |-> ManifestPath(<<"packages", "nameless">>),
      json |-> PackageJson(Absent, "1.0.0", <<>>, <<>>)]}

\* The manifests a path of the list can lead to, by the number of entries
\* they may still declare.
Manifests == [n \in 0..MaxDeclared |-> GoodManifests(n) \cup BadManifests]

\* Dependency entries held by the package map of a build in progress.
RECURSIVE DeclaredIn(_, _)
DeclaredIn(packages, i) ==
    IF i > Len(packages) THEN 0
    ELSE Len(packages[i][2].dependencies) + DeclaredIn(packages, i + 1)

-----------------------------------------------------------------------------
(* The state machine: a caller builds or mocks a graph, then analyses,     *)
(* serializes and restores it.                                             *)

NoGraph == [held |-> FALSE]
NoDisk == [mounted |-> FALSE]
Idle == [running |-> FALSE]
NoCall == [op |-> "none"]

\* packageJsonPaths as the first pass has consumed it so far: the number of
\* paths (building.parsed) and, for every package name met, the manifest of
\* the last path that declared it (building.last).
NoManifests == [name \in {} |-> name]
LastOf(last, name, file) ==
    [n \in DOMAIN last \cup {name} |-> IF n = name THEN file ELSE last[n]]

Init ==
    /\ graph = NoGraph
    /\ origin = "none"
    /\ building = Idle
    /\ call = NoCall
    /\ sorting = Idle
    /\ traversing = Idle
    /\ builds = Idle
    /\ scanning = Idle
    /\ disk = NoDisk

\* The test suite's createMockGraph(structure).
CreateMockGraph ==
    /\ graph = NoGraph
    /\ building = Idle
    /\ call = NoCall
    /\ \E structure \in MockStructures : graph' = createMockGraph(structure)
    /\ origin' = "createMockGraph"
    /\ UNCHANGED <<building, call, stepwise>>

\* buildDependencyGraph(packageJsonPaths) up to its first await.
BeginBuild ==
    /\ graph = NoGraph
    /\ building = Idle
    /\ call = NoCall
    /\ building' = [packages |-> <<>>, parsed |-> 0, last |-> NoManifests]
    /\ UNCHANGED <<graph, origin, call, stepwise>>

\* Variant of ParseStep that returns the graph of the manifests parsed
\* before the rejected one.
ParseStep_Partial(file) ==
    LET parsed == parsePackageJson(file)
    IN  IF parsed.ok
        THEN /\ building' = [packages |-> AddPackage(building.packages, parsed.info),
                             parsed |-> building.parsed + 1,
                             last |-> LastOf(building.last, parsed.info.name, file)]
             /\ UNCHANGED <<graph, origin, call, stepwise>>
        ELSE /\ graph' = ResolveGraph(building.packages)
             /\ origin' = "buildDependencyGraph"
             /\ building' = Idle
             /\ call' = [op |-> "buildDependencyGraph", ok |-> FALSE,
                         out |-> parsed.error,
                         arg |-> [parsed |-> building.parsed, last |-> building.last,
                                  rejected |-> file]]
             /\ UNCHANGED stepwise

\* One iteration of the first pass: await parsePackageJson(path), then
\* packages.set; a rejected parse ends the whole call with that error.
ParseStep(file) ==
    LET parsed == parsePackageJson(file)
    IN  IF parsed.ok
        THEN /\ building' = [packages |-> AddPackage(building.packages, parsed.info),
                             parsed |-> building.parsed + 1,
                             last |-> LastOf(building.last, parsed.info.name, file)]
             /\ UNCHANGED <<graph, origin, call, stepwise>>
        ELSE /\ building' = Idle
             /\ call' = [op |-> "buildDependencyGraph", ok |-> FALSE,
                         out |-> parsed.error,
                         arg |-> [parsed |-> building.parsed, last |-> building.last,
                                  rejected |-> file]]
             /\ UNCHANGED <<graph, origin, stepwise>>

\* The next path of the list is any manifest the bounds allow.
ParseManifest ==
    /\ building # Idle
    /\ building.parsed < MaxManifests
    /\ DeclaredIn(building.packages, 1) <= MaxDeclared
    /\ \E file \in Manifests[MaxDeclared - DeclaredIn(building.packages, 1)] :
          ParseStep(file)

\* The rest of buildDependencyGraph once every path is parsed.
FinishBuild ==
    /\ building # Idle
    /\ graph' = ResolveGraph(building.packages)
    /\ origin' = "buildDependencyGraph"
    /\ building' = Idle
    /\ call' = [op |-> "buildDependencyGraph", ok |-> TRUE,
                arg |-> [parsed |-> building.parsed, last |-> building.last]]
    /\ UNCHANGED stepwise

\* The caller is done with the result of its last call.
ReleaseResult ==
    /\ call # NoCall
    /\ call' = NoCall
    /\ UNCHANGED <<graph, origin, building, stepwise>>

\* A caller that holds a graph and no pending result makes its next call.
CanCall == graph # NoGraph /\ call = NoCall

\* Variant of TopologicalSort that removes the edges it has followed from
\* the graph.
TopologicalSort_ConsumesEdges ==
    /\ CanCall
    /\ call' = [op |-> "topologicalSort", out |-> topologicalSort(graph)]
    /\ graph' = [graph EXCEPT !.edges = <<>>]
    /\ UNCHANGED <<origin, building, stepwise>>

TopologicalSort ==
    /\ CanCall
    /\ call' = [op |-> "topologicalSort", out |-> topologicalSort(graph)]
    /\ UNCHANGED <<graph, origin, building, stepwise>>

FindAllDependents ==
    /\ CanCall
    /\ \E packageName \in Names :
          call' = [op |-> "findAllDependents", arg |-> packageName,
                   out |-> findAllDependents(packageName, graph)]
    /\ UNCHANGED <<graph, origin, building, stepwise>>

BuildReverseGraph ==
    /\ CanCall
    /\ call' = [op |-> "buildReverseGraph", arg |-> graph.edges,
                out |-> buildReverseGraph(graph.edges)]
    /\ UNCHANGED <<graph, origin, building, stepwise>>

ValidateGraph ==
    /\ CanCall
    /\ call' = [op |-> "validateGraph", out |-> validateGraph(graph)]
    /\ UNCHANGED <<graph, origin, building, stepwise>>

SerializeGraph ==
    /\ CanCall
    /\ call' = [op |-> "serializeGraph", out |-> serializeGraph(graph)]
    /\ UNCHANGED <<graph, origin, building, stepwise>>

\* deserializeGraph of the snapshot just taken; the caller still holds the
\* graph that was serialized.
DeserializeGraph ==
    /\ call.op = "serializeGraph"
    /\ call' = [op |-> "deserializeGraph", arg |-> call.out,
                out |-> deserializeGraph(call.out)]
    /\ UNCHANGED <<graph, origin, building, stepwise>>

\* topologicalSort of the graph just restored.
SortRestored ==
    /\ call.op = "deserializeGraph"
    /\ call' = [op |-> "topologicalSort of restored", arg |-> call.out,
                out |-> topologicalSort(call.out)]
    /\ UNCHANGED <<graph, origin, building, stepwise>>

\* buildReverseGraph of the map buildReverseGraph just returned; arg stays
\* the edge map the first call was given.
ReverseTwice ==
    /\ call.op = "buildReverseGraph"
    /\ call' = [op |-> "buildReverseGraph twice", arg |-> call.arg,
                out |-> buildReverseGraph(call.out)]
    /\ UNCHANGED <<graph, origin, building, stepwise>>

Next ==
    \/ CreateMockGraph
    \/ BeginBuild
    \/ ParseManifest
    \/ FinishBuild
    \/ ReleaseResult
    \/ TopologicalSort
    \/ FindAllDependents
    \/ BuildReverseGraph
    \/ ValidateGraph
    \/ SerializeGraph
    \/ DeserializeGraph
    \/ SortRestored
    \/ ReverseTwice

Spec == Init /\ [][Next]_vars

-----------------------------------------------------------------------------
(* topologicalSort followed statement by statement.  sorting.st is the     *)
(* closure state of the call, sorting.stack the activations of visit, each *)
(* with the position of its loop over deps, and sorting.roots the position *)
(* of the loop over packages.keys().                                       *)

SortEntry == [st |-> SortStart, stack |-> <<>>, roots |-> 1]

\* The call visit(packageName) up to the loop over its dependencies: it
\* returns at once, throws (the Error unwinds every activation), or marks
\* the package and starts the loop.
CallVisit(s, packageName) ==
    IF packageName \in s.st.visited THEN s
    ELSE IF packageName \in s.st.visiting
    THEN [s EXCEPT !.st.thrown = packageName, !.stack = <<>>]
    ELSE [s EXCEPT !.st.visiting = @ \cup {packageName},
                   !.stack = Append(@, [packageName |-> packageName,
                                        deps |-> DepsOf(graph.edges, packageName),
                                        next |-> 1])]

SortRunning ==
    /\ sorting # Idle
    /\ call = NoCall
    /\ sorting.st.thrown = NoError

\* One iteration of the loop over packages.keys().
SortRoot ==
    /\ SortRunning
    /\ sorting.stack = <<>>
    /\ sorting.roots <= Len(graph.packages)
    /\ sorting' = CallVisit([sorting EXCEPT !.roots = @ + 1],
                            MapKeys(graph.packages)[sorting.roots])
    /\ UNCHANGED <<graph, origin, building, call, traversing, builds, scanning, disk>>

\* One iteration of the loop over deps in the innermost visit.
SortDep ==
    /\ SortRunning
    /\ sorting.stack # <<>>
    /\ LET depth == Len(sorting.stack)
           top == sorting.stack[depth]
       IN  /\ top.next <= Len(top.deps)
           /\ sorting' = CallVisit([sorting EXCEPT !.stack[depth].next = @ + 1],
                                   top.deps[top.next])
    /\ UNCHANGED <<graph, origin, building, call, traversing, builds, scanning, disk>>

\* The innermost visit leaves its loop, marks its package done and returns.
SortDone ==
    /\ SortRunning
    /\ sorting.stack # <<>>
    /\ LET depth == Len(sorting.stack)
           top == sorting.stack[depth]
       IN  /\ top.next > Len(top.deps)
           /\ sorting' = [sorting EXCEPT !.st = VisitDone(@, top.packageName),
                                         !.stack = SubSeq(@, 1, depth - 1)]
    /\ UNCHANGED <<graph, origin, building, call, traversing, builds, scanning, disk>>

\* return result
SortReturn ==
    /\ SortRunning
    /\ sorting.stack = <<>>
    /\ sorting.roots > Len(graph.packages)
    /\ call' = [op |-> "topologicalSort",
                out |-> [ok |-> TRUE, order |-> sorting.st.result]]
    /\ UNCHANGED <<graph, origin, building, sorting, traversing, builds, scanning, disk>>

\* The Error thrown in visit reaches the caller.
SortThrow ==
    /\ sorting # Idle
    /\ call = NoCall
    /\ sorting.st.thrown # NoError
    /\ call' = [op |-> "topologicalSort",
                out |-> [ok |-> FALSE, message |-> CircularMessage(sorting.st.thrown)]]
    /\ UNCHANGED <<graph, origin, building, sorting, traversing, builds, scanning, disk>>

\* The graphs of the test suite's createMockGraph.
MockGraphs == {createMockGraph(structure) : structure \in MockStructures}

InitSort ==
    /\ graph \in MockGraphs
    /\ origin = "createMockGraph"
    /\ building = Idle
    /\ call = NoCall
    /\ sorting = SortEntry
    /\ traversing = Idle
    /\ builds = Idle
    /\ scanning = Idle
    /\ disk = NoDisk

NextSort == SortRoot \/ SortDep \/ SortDone \/ SortReturn \/ SortThrow

SpecSort == InitSort /\ [][NextSort]_vars

-----------------------------------------------------------------------------
(* findAllDependents followed statement by statement.  traversing.stack    *)
(* holds the activations of traverse, each with the position of its loop   *)
(* over directDependents; traversing.expanded lists the packages whose     *)
(* reverse edges were read, in the order of the reads.                     *)

TraverseEntry(packageName) ==
    [packageName |-> packageName, called |-> FALSE, dependents |-> <<>>,
     visited |-> {}, stack |-> <<>>, expanded |-> <<>>]

\* Variant of CallTraverse in which the outermost call does not mark its
\* package.
CallTraverse_StartUnmarked(s, pkg) ==
    IF pkg \in s.visited THEN s
    ELSE [s EXCEPT !.visited = IF s.stack = <<>> THEN @ ELSE @ \cup {pkg},
                   !.expanded = Append(@, pkg),
                   !.stack = Append(@, [pkg |-> pkg,
                                        directDependents |->
                                            DirectDependents(graph.reverseEdges, pkg),
                                        next |-> 1])]

\* The call traverse(pkg) up to its loop: it returns at once, or marks pkg,
\* reads its reverse edges and starts the loop.
CallTraverse(s, pkg) ==
    IF pkg \in s.visited THEN s
    ELSE [s EXCEPT !.visited = @ \cup {pkg},
                   !.expanded = Append(@, pkg),
                   !.stack = Append(@, [pkg |-> pkg,
                                        directDependents |->
                                            DirectDependents(graph.reverseEdges, pkg),
                                        next |-> 1])]

TraverseRunning == traversing # Idle /\ call = NoCall

\* traverse(packageName), the outermost call.
TraverseCall ==
    /\ TraverseRunning
    /\ ~traversing.called
    /\ traversing' = CallTraverse([traversing EXCEPT !.called = TRUE],
                                  traversing.packageName)
    /\ UNCHANGED <<graph, origin, building, call, sorting, builds, scanning, disk>>

\* One iteration of the loop of the innermost traverse.
TraverseDependent ==
    /\ TraverseRunning
    /\ traversing.stack # <<>>
    /\ LET depth == Len(traversing.stack)
           top == traversing.stack[depth]
       IN  /\ top.next <= Len(top.directDependents)
           /\ LET dependent == top.directDependents[top.next]
              IN  traversing' =
                      CallTraverse([traversing EXCEPT
                                       !.dependents = SetAdd(@, dependent),
                                       !.stack[depth].next = @ + 1],
                                   dependent)
    /\ UNCHANGED <<graph, origin, building, call, sorting, builds, scanning, disk>>

\* The innermost traverse has ended its loop and returns.
TraverseDone ==
    /\ TraverseRunning
    /\ traversing.stack # <<>>
    /\ LET depth == Len(traversing.stack)
           top == traversing.stack[depth]
       IN  /\ top.next > Len(top.directDependents)
           /\ traversing' = [traversing EXCEPT !.stack = SubSeq(@, 1, depth - 1)]
    /\ UNCHANGED <<graph, origin, building, call, sorting, builds, scanning, disk>>

\* return dependents
TraverseReturn ==
    /\ TraverseRunning
    /\ traversing.called
    /\ traversing.stack = <<>>
    /\ call' = [op |-> "findAllDependents", arg |-> traversing.packageName,
                out |-> traversing.dependents]
    /\ UNCHANGED <<graph, origin, building, sorting, traversing, builds, scanning, disk>>

InitDependents ==
    /\ graph \in MockGraphs
    /\ origin = "createMockGraph"
    /\ building = Idle
    /\ call = NoCall
    /\ sorting = Idle
    /\ traversing \in {TraverseEntry(packageName) : packageName \in Names}
    /\ builds = Idle
    /\ scanning = Idle
    /\ disk = NoDisk

NextDependents == TraverseCall \/ TraverseDependent \/ TraverseDone \/ TraverseReturn

SpecDependents == InitDependents /\ [][NextDependents]_vars

-----------------------------------------------------------------------------
(* Two buildDependencyGraph calls in progress at once.  Each call has its  *)
(* own `packages` map (a const of the call); it is suspended at            *)
(* `await parsePackageJson(path)` and the event loop resumes either call.  *)

\* The manifests of the two lists: package a depending on b, package b, a
\* vendored copy of a without version that depends on c, and a file that is
\* no valid JSON.
ConcurrentManifests ==
    {[path |-> ManifestPath(<<"packages", "a">>),
      json |-> PackageJson("a", "1.0.0", <<"b">>, <<>>)],
     [path |-> ManifestPath(<<"packages", "b">>),
      json |-> PackageJson("b", "1.0.0", <<>>, <<>>)],
     [path |-> ManifestPath(<<"vendor", "a">>),
      json |-> PackageJson("a", Absent, <<>>, <<"c">>)],
     [path |-> ManifestPath(<<"packages", "broken">>), json |-> Malformed]}

\* The lists of manifests: any of them, repeated or not, in any order.
RECURSIVE FileLists(_)
FileLists(n) ==
    IF n = 0 THEN {<<>>}
    ELSE FileLists(n - 1) \cup
         {Append(l, f) : l \in {m \in FileLists(n - 1) : Len(m) = n - 1},
                         f \in ConcurrentManifests}

Pending == [done |-> FALSE]

\* A call from its entry to its first await.  With an empty list there is
\* no await: both loops and buildReverseGraph run and the call returns.
BuildEntry(files) ==
    IF Len(files) = 0
    THEN LET g == ResolveGraph(<<>>)
         IN  [files |-> files, parsed |-> 0, packages |-> g.packages,
              result |-> [done |-> TRUE, ok |-> TRUE, graph |-> g]]
    ELSE [files |-> files, parsed |-> 0, packages |-> <<>>, result |-> Pending]

\* Variant of StoreParsed with one package map for all calls.
StoreParsed_Shared(bs, i, packageInfo) ==
    [j \in DOMAIN bs |-> [bs[j] EXCEPT !.packages = AddPackage(@, packageInfo),
                                       !.parsed = IF j = i THEN @ + 1 ELSE @]]

\* packages.set(packageInfo.name, packageInfo) in call i.
StoreParsed(bs, i, packageInfo) ==
    [bs EXCEPT ![i].packages = AddPackage(@, packageInfo), ![i].parsed = @ + 1]

\* Call i is resumed with the outcome of a parsePackageJson that is
\* rejected, or that is not the last of its list: the Error leaves the
\* call, or the package is stored and the call suspends at the next await.
ConcurrentParse(i) ==
    /\ builds # Idle
    /\ builds[i].result = Pending
    /\ builds[i].parsed < Len(builds[i].files)
    /\ LET parsed == parsePackageJson(builds[i].files[builds[i].parsed + 1])
       IN  /\ ~parsed.ok \/ builds[i].parsed + 1 < Len(builds[i].files)
           /\ builds' = IF parsed.ok THEN StoreParsed(builds, i, parsed.info)
                        ELSE [builds EXCEPT ![i].result =
                                 [done |-> TRUE, ok |-> FALSE, error |-> parsed.error]]
    /\ UNCHANGED <<graph, origin, building, call, sorting, traversing, scanning, disk>>

\* Call i is resumed with the package of the last manifest of its list and
\* runs without another await to its return: packages.set, the second pass,
\* which assigns localDependencies on the objects of its package map, and
\* buildReverseGraph.  The map returned as graph.packages is that map.
ConcurrentFinish(i) ==
    /\ builds # Idle
    /\ builds[i].result = Pending
    /\ builds[i].parsed + 1 = Len(builds[i].files)
    /\ LET parsed == parsePackageJson(builds[i].files[builds[i].parsed + 1])
           stored == StoreParsed(builds, i, parsed.info)
           g == ResolveGraph(stored[i].packages)
       IN  /\ parsed.ok
           /\ builds' = [stored EXCEPT ![i].packages = g.packages,
                                       ![i].result =
                                           [done |-> TRUE, ok |-> TRUE, graph |-> g]]
    /\ UNCHANGED <<graph, origin, building, call, sorting, traversing, scanning, disk>>

InitConcurrent ==
    /\ graph = NoGraph
    /\ origin = "none"
    /\ building = Idle
    /\ call = NoCall
    /\ sorting = Idle
    /\ traversing = Idle
    /\ builds \in [1..2 -> {BuildEntry(files) : files \in FileLists(MaxPaths)}]
    /\ scanning = Idle
    /\ disk = NoDisk

NextConcurrent == \E i \in 1..2 : ConcurrentParse(i) \/ ConcurrentFinish(i)

SpecConcurrent == InitConcurrent /\ [][NextConcurrent]_vars

-----------------------------------------------------------------------------
(* scanForPackageJsonFiles followed await by await.  The call is suspended *)
(* at fs.access of the directory's own package.json, at fs.readdir and at  *)
(* fs.access of the package.json of each entry that is a directory; each   *)
(* settles in a later turn of the event loop, against the disk as it is    *)
(* then.  Between two turns another callback may write or remove a         *)
(* package.json, and the caller, who holds the pending Promise, may build  *)
(* a graph.                                                                *)

\* The names of the entries.
NodeModules == <<"n", "o", "d", "e", "_", "m", "o", "d", "u", "l", "e", "s">>
Nested == <<"n", "e", "s", "t", "e", "d">>

\* The directory tree of the disks that are scanned: a file and two
\* directories in the working directory, and a directory in each of them.
WorkspaceEntries ==
    (Cwd :>
        <<[name |-> <<"R", "E", "A", "D", "M", "E", ".", "m", "d">>, isDirectory |-> FALSE],
          [name |-> <<"a">>, isDirectory |-> TRUE],
          [name |-> NodeModules, isDirectory |-> TRUE]>>)
    @@ (join(Cwd, <<"a">>) :>
        <<[name |-> Nested, isDirectory |-> TRUE]>>)
    @@ (join(Cwd, NodeModules) :>
        <<[name |-> <<"d", "e", "p">>, isDirectory |-> TRUE]>>)
    @@ (join(join(Cwd, <<"a">>), Nested) :> <<>>)
    @@ (join(join(Cwd, NodeModules), <<"d", "e", "p">>) :> <<>>)

\* The disks: the tree with a package.json in any of its directories;
\* disk.manifests is the set of package.json paths that exist.
ManifestPaths == {join(d, PackageJsonName) : d \in DOMAIN WorkspaceEntries}
Disks == {[entries |-> WorkspaceEntries, manifests |-> M] : M \in SUBSET ManifestPaths}

\* The directories given to scanForPackageJsonFiles: the working directory,
\* by its absolute path or as ".", a directory in it, or one that does not
\* exist.
ScanRoots ==
    {Cwd,
     <<".">>,
     join(Cwd, <<"a">>),
     join(Cwd, <<"n", "o", "n", "e", "x", "i", "s", "t", "e", "n", "t">>)}

\* The exclusion pattern lists: none; a directory name; a relative path; a
\* glob with "*"; the globstar pattern of the documentation; a pattern with
\* "?"; a character class; the parent directory; a pattern that is no
\* regular expression, alone and behind one that matches.
PatternLists ==
    {<<>>,
     <<<<".", ".">>>>,
     <<NodeModules>>,
     <<join(<<"a">>, Nested)>>,
     <<<<"a", "*">>>>,
     <<<<"*", "*", "/">> \o NodeModules \o <<"/", "*", "*">>>>,
     <<<<"p", "a", "c", "k", "a", "g", "e", "?", "j", "s", "o", "n">>>>,
     <<<<"n", "o", "d", "e", "_", "m", "o", "d", "u", "l", "e", "[", "s", "t", "]">>>>,
     <<<<"(">>>>,
     <<<<"a">>, <<"(">>>>}

\* fs.access(packageJsonPath) resolves; the file system takes a relative
\* path from the working directory.
Access(d, packageJsonPath) == resolve(packageJsonPath) \in d.manifests

\* The name a comes before the name b in the order of the char codes.
RECURSIVE NameBefore(_, _, _)
NameBefore(a, b, i) ==
    IF i > Len(b) THEN FALSE
    ELSE IF i > Len(a) THEN TRUE
    ELSE IF a[i] = b[i] THEN NameBefore(a, b, i + 1)
    ELSE Code(a[i]) < Code(b[i])

\* What fs.readdir(directory, {withFileTypes: true}) resolves with: the
\* entries of the directory in the order of their names, its package.json
\* among them when it has one.
readdir(d, directory) ==
    LET Listed(entries) ==
            IF Access(d, join(directory, PackageJsonName))
            THEN SelectSeq(entries, LAMBDA e : NameBefore(e.name, PackageJsonName, 1))
                 \o <<[name |-> PackageJsonName, isDirectory |-> FALSE]>>
                 \o SelectSeq(entries, LAMBDA e : ~NameBefore(e.name, PackageJsonName, 1))
            ELSE entries
    IN  Listed(d.entries[resolve(directory)])

\* The position of the first entry from i on that is a directory,
\* Len(entries) + 1 if there is none: the loop passes the other entries
\* without suspending.
RECURSIVE NextDirectory(_, _)
NextDirectory(entries, i) ==
    IF i > Len(entries) THEN i
    ELSE IF entries[i].isDirectory THEN i
    ELSE NextDirectory(entries, i + 1)

\* The call from its entry to its first await.  Every fs call of the scan
\* is a request to the thread pool: the system call is made at some moment
\* after the request, and the promise settles at some moment after the
\* system call.  path is the argument of the pending request; request holds
\* what the system call found once it was made.
ScanEntry(directory, excludedPatterns) ==
    [pc |-> "access direct", directory |-> directory,
     excludedPatterns |-> excludedPatterns, packageJsonPaths |-> <<>>,
     entries |-> <<>>, i |-> 0, changes |-> 0,
     path |-> join(directory, PackageJsonName),
     request |-> [performed |-> FALSE]]

ScanPending == scanning # Idle /\ scanning.pc \notin {"returned", "thrown"}

\* The loop over entries goes on from entry i: it requests fs.access for
\* the next directory and suspends or, when none is left, the call returns
\* packageJsonPaths.
ScanLoop(s, entries, i, packageJsonPaths) ==
    LET At(next) ==
            [s EXCEPT !.pc = IF next > Len(entries) THEN "returned" ELSE "access entry",
                      !.entries = entries, !.i = next,
                      !.packageJsonPaths = packageJsonPaths,
                      !.path = IF next > Len(entries) THEN @
                               ELSE join(join(s.directory, entries[next].name),
                                         PackageJsonName),
                      !.request = [performed |-> FALSE]]
    IN  At(NextDirectory(entries, i))

\* The thread pool makes the access system call of the pending fs.access:
\* it sees the disk of this moment.
AccessSyscall ==
    /\ ScanPending
    /\ scanning.pc \in {"access direct", "access entry"}
    /\ ~scanning.request.performed
    /\ scanning' = [scanning EXCEPT
                       !.request = [performed |-> TRUE,
                                    ok |-> Access(disk, scanning.path)]]
    /\ UNCHANGED <<graph, origin, building, call, sorting, traversing, builds, disk>>

\* The thread pool reads the directory of the pending fs.readdir: it sees
\* the disk of this moment.
ReaddirSyscall ==
    /\ ScanPending
    /\ scanning.pc = "readdir"
    /\ ~scanning.request.performed
    /\ scanning' = [scanning EXCEPT
                       !.request =
                           IF resolve(scanning.path) \notin DOMAIN disk.entries
                           THEN [performed |-> TRUE, ok |-> FALSE, entries |-> <<>>]
                           ELSE [performed |-> TRUE, ok |-> TRUE,
                                 entries |-> readdir(disk, scanning.path)]]
    /\ UNCHANGED <<graph, origin, building, call, sorting, traversing, builds, disk>>

\* fs.access(directPackageJsonPath) settles with what the system call found;
\* the call goes on and requests fs.readdir(directory).
ScanAccessDirect ==
    /\ scanning # Idle
    /\ scanning.pc = "access direct"
    /\ scanning.request.performed
    /\ scanning' =
           [scanning EXCEPT
               !.pc = "readdir",
               !.packageJsonPaths =
                   Found(@, scanning.request.ok, scanning.path,
                         scanning.excludedPatterns),
               !.path = scanning.directory,
               !.request = [performed |-> FALSE]]
    /\ UNCHANGED <<graph, origin, building, call, sorting, traversing, builds, disk>>

\* fs.readdir settles with what the system call found: rejected, the outer
\* catch logs and rethrows; resolved, the loop over the entries starts.
ScanReaddir ==
    /\ scanning # Idle
    /\ scanning.pc = "readdir"
    /\ scanning.request.performed
    /\ scanning' =
           IF ~scanning.request.ok
           THEN [scanning EXCEPT !.pc = "thrown"]
           ELSE ScanLoop(scanning, scanning.request.entries, 1,
                         scanning.packageJsonPaths)
    /\ UNCHANGED <<graph, origin, building, call, sorting, traversing, builds, disk>>

\* fs.access of the package.json of entry i settles with what the system
\* call found; the loop goes on.
ScanAccessEntry ==
    /\ scanning # Idle
    /\ scanning.pc = "access entry"
    /\ scanning.request.performed
    /\ scanning' =
           ScanLoop(scanning, scanning.entries, scanning.i + 1,
                    Found(scanning.packageJsonPaths, scanning.request.ok,
                          scanning.path, scanning.excludedPatterns))
    /\ UNCHANGED <<graph, origin, building, call, sorting, traversing, builds, disk>>

\* Another callback writes or removes a package.json while the scan is
\* pending: before a system call of the scan, or between a system call and
\* the settlement of its promise.
DiskChange ==
    /\ ScanPending
    /\ scanning.changes < MaxDiskChanges
    /\ \E m \in ManifestPaths :
          disk' = [disk EXCEPT !.manifests =
                      IF m \in @ THEN @ \ {m} ELSE @ \cup {m}]
    /\ scanning' = [scanning EXCEPT !.changes = @ + 1]
    /\ UNCHANGED <<graph, origin, building, call, sorting, traversing, builds>>

\* The caller calls buildDependencyGraph([]) while the scan is pending and
\* holds the graph it returns.
BuildWhileScanning ==
    /\ ScanPending
    /\ graph = NoGraph
    /\ graph' = buildDependencyGraph(<<>>).graph
    /\ origin' = "buildDependencyGraph"
    /\ UNCHANGED <<building, call, stepwise>>

InitScan ==
    /\ graph = NoGraph
    /\ origin = "none"
    /\ building = Idle
    /\ call = NoCall
    /\ sorting = Idle
    /\ traversing = Idle
    /\ builds = Idle
    /\ disk \in Disks
    /\ \E directory \in ScanRoots, excludedPatterns \in PatternLists :
          scanning = ScanEntry(directory, excludedPatterns)

NextScan ==
    \/ AccessSyscall
    \/ ReaddirSyscall
    \/ ScanAccessDirect
    \/ ScanReaddir
    \/ ScanAccessEntry
    \/ DiskChange
    \/ BuildWhileScanning

SpecScan == InitScan /\ [][NextScan]_vars

-----------------------------------------------------------------------------
(* Graph notions the properties are stated in.                             *)

\* The keys of the node map.
NodeKeys(g) == Range(MapKeys(g.packages))

\* The names some forward edge of g leads to from a name of S.
Successors(g, S) == UNION {Targets(g.edges, x) : x \in S}

\* The names reachable from x by one or more forward edges.
RECURSIVE Grow(_, _)
Grow(g, R) == IF Successors(g, R) \subseteq R THEN R ELSE Grow(g, R \cup Successors(g, R))
ReachableFrom(g, x) == Grow(g, Targets(g.edges, x))

\* x lies on a cycle of forward edges.
OnCycle(g, x) == x \in ReachableFrom(g, x)
HasCycle(g) == \E x \in Names : OnCycle(g, x)

\* The packages that depend on x directly or transitively.
DependOn(g, x) == {p \in Names : x \in ReachableFrom(g, p)}

\* The number of positions of seq that hold x.
Occurrences(seq, x) == Cardinality({i \in 1..Len(seq) : seq[i] = x})

\* A text contains the fragment.
Contains(message, fragment) == fragment \in Range(message)

Sorted == call.op = "topologicalSort"
Validated == call.op = "validateGraph"
Built == call.op = "buildDependencyGraph" /\ call.ok
Restored == call.op = "deserializeGraph"
Reversed == call.op = "buildReverseGraph"
FoundDependents == call.op = "findAllDependents"

-----------------------------------------------------------------------------
(* Properties of topologicalSort.                                          *)

\* C1: on a graph whose forward edges have no cycle, topologicalSort
\* returns an order that holds every key of the node map exactly once and
\* in which, for every forward edge A -> B, B stands strictly before A.
C1_SortOrdersAcyclic ==
    (Sorted /\ ~HasCycle(graph)) =>
        /\ call.out.ok
        /\ \A k \in NodeKeys(graph) : Occurrences(call.out.order, k) = 1
        /\ \A A \in Names : \A B \in Targets(graph.edges, A) :
              /\ IndexOf(call.out.order, A) > 0
              /\ IndexOf(call.out.order, B) > 0
              /\ IndexOf(call.out.order, B) < IndexOf(call.out.order, A)

\* An acyclic graph of three packages with a chain of two edges was sorted.
C1_Witness ==
    /\ Sorted
    /\ ~HasCycle(graph)
    /\ Len(graph.packages) = 3
    /\ \E A, B, C \in Names :
          /\ A # B /\ B # C
          /\ B \in Targets(graph.edges, A)
          /\ C \in Targets(graph.edges, B)
          /\ MapKeys(graph.packages)[1] = A

\* C2: on a graph whose forward edges have a cycle of any length, a
\* self-dependency included, topologicalSort throws an error whose message
\* contains "Circular dependency", and validateGraph returns valid = false
\* with such a message among its errors.
C2_CycleIsReported ==
    /\ (Sorted /\ HasCycle(graph)) =>
          /\ ~call.out.ok
          /\ Contains(call.out.message, "Circular dependency")
    /\ (Validated /\ HasCycle(graph)) =>
          /\ ~call.out.valid
          /\ \E i \in 1..Len(call.out.errors) :
                Contains(call.out.errors[i], "Circular dependency")

\* validateGraph ran on a graph whose only cycle has three packages.
C2_Witness ==
    /\ Validated
    /\ ~call.out.valid
    /\ \A x \in Names : OnCycle(graph, x) /\ x \notin Targets(graph.edges, x)
    /\ \A x, y \in Names : y \in Targets(graph.edges, x) => x \notin Targets(graph.edges, y)

\* C3: the package a cycle error of topologicalSort names lies on a cycle:
\* it reaches itself by one or more forward edges.
C3_NamedPackageOnCycle ==
    (Sorted /\ ~call.out.ok) => OnCycle(graph, call.out.message[3])

\* The sort failed on a graph whose first root is not on any cycle.
C3_Witness ==
    /\ Sorted
    /\ ~call.out.ok
    /\ ~OnCycle(graph, MapKeys(graph.packages)[1])

-----------------------------------------------------------------------------
(* Properties of the reverse edges.                                        *)

\* y is in edges[x] exactly when x is in reverseEdges[y].
Transposed(g) ==
    \A x, y \in Names : y \in Targets(g.edges, x) <=> x \in Targets(g.reverseEdges, y)

\* C4: in the graph buildDependencyGraph returns and in the graph
\* deserializeGraph returns, reverseEdges is the exact transpose of the
\* forward edges, an absent key counting as the empty set.
C4_ReverseIsTranspose ==
    /\ Built => Transposed(graph)
    /\ Restored => Transposed(call.out)

\* A build returned a graph in which one package has two dependents.
C4_Witness ==
    /\ Built
    /\ \E y \in Names : Cardinality(Targets(graph.reverseEdges, y)) = 2

\* C5: buildReverseGraph(edges) maps each name t to exactly the sources s
\* with t in edges[s]; its keys are exactly the names with a dependent,
\* each once, and no key maps to the empty set.
C5_ReverseGraphExact ==
    Reversed =>
        /\ \A t \in Names :
              Targets(call.out, t) = {s \in Names : t \in Targets(call.arg, s)}
        /\ Range(MapKeys(call.out)) = {t \in Names : \E s \in Names : t \in Targets(call.arg, s)}
        /\ \A i, j \in 1..Len(call.out) : call.out[i][1] = call.out[j][1] => i = j
        /\ \A i \in 1..Len(call.out) : Len(call.out[i][2]) > 0

\* The edge map given had a key with no dependencies and no dependents, and
\* a name with two dependents.
C5_Witness ==
    /\ Reversed
    /\ \E k \in Range(MapKeys(call.arg)) :
          Targets(call.arg, k) = {} /\ ~MapHas(call.out, k)
    /\ \E t \in Names : Cardinality(Targets(call.out, t)) = 2

-----------------------------------------------------------------------------
(* Properties of findAllDependents.                                        *)

\* C6: findAllDependents(name, graph) is exactly the set of packages from
\* which name is reachable by one or more forward edges.
C6_DependentsExact ==
    FoundDependents =>
        /\ Range(call.out) = DependOn(graph, call.arg)
        /\ Len(call.out) = Cardinality(Range(call.out))

\* A package had a transitive dependent that is no direct dependent.
C6_Witness ==
    /\ FoundDependents
    /\ \E p \in Range(call.out) : call.arg \notin Targets(graph.edges, p)
    /\ ~HasCycle(graph)

\* C7 as stated: for every graph, acyclic or cyclic, the result never
\* contains the start package.
C7_NeverContainsStart ==
    FoundDependents => call.arg \notin Range(call.out)

\* C7 as amended: the result contains the start package exactly when that
\* package lies on a cycle of forward edges; on a graph where it does not,
\* acyclic graphs in particular, the start package is never in the result.
C7_ContainsStartIffOnCycle ==
    FoundDependents => (call.arg \in Range(call.out) <=> OnCycle(graph, call.arg))

\* The start package was returned among its own dependents, on a cycle of
\* two packages.
C7_Witness ==
    /\ FoundDependents
    /\ call.arg \in Range(call.out)
    /\ call.arg \notin Targets(graph.edges, call.arg)

\* Some forward edge of g leads to name.
IsTarget(g, name) == \E s \in Names : name \in Targets(g.edges, s)

\* C8 as stated: the result is empty whenever the name has no dependents
\* or is not a key of the node map.
C8_EmptyForUnknownName ==
    (FoundDependents /\ (~IsTarget(graph, call.arg) \/ call.arg \notin NodeKeys(graph)))
        => call.out = <<>>

\* C8 as amended: the result is empty whenever the name has no dependents,
\* or is not a key of the node map and no forward edge leads to it.
C8_EmptyWithoutDependents ==
    (FoundDependents /\
        (\/ ~IsTarget(graph, call.arg)
         \/ (call.arg \notin NodeKeys(graph) /\ ~IsTarget(graph, call.arg))))
        => call.out = <<>>

\* The dependents of a name that is no node key were asked for in a graph
\* that has edges.
C8_Witness ==
    /\ FoundDependents
    /\ call.arg \notin NodeKeys(graph)
    /\ \E s \in Names : Targets(graph.edges, s) # {}
    /\ call.out = <<>>

-----------------------------------------------------------------------------
(* Properties of the round trip through serializeGraph, deserializeGraph.  *)

\* Two edge maps have the same keys, each once, and the same target sets.
SameEdges(E1, E2) ==
    /\ Range(MapKeys(E1)) = Range(MapKeys(E2))
    /\ Len(E1) = Len(E2)
    /\ \A k \in Names : Targets(E1, k) = Targets(E2, k)

\* C9: deserializeGraph(serializeGraph(G)) has the node keys of G with the
\* same name, version and path on every node, the same forward edges and
\* the same reverse edges.
C9_RoundTripPreserves ==
    Restored =>
        /\ NodeKeys(call.out) = NodeKeys(graph)
        /\ Len(call.out.packages) = Len(graph.packages)
        /\ \A k \in NodeKeys(graph) :
              /\ MapGet(call.out.packages, k).name = MapGet(graph.packages, k).name
              /\ MapGet(call.out.packages, k).version = MapGet(graph.packages, k).version
              /\ MapGet(call.out.packages, k).path = MapGet(graph.packages, k).path
        /\ SameEdges(call.out.edges, graph.edges)
        /\ SameEdges(call.out.reverseEdges, graph.reverseEdges)

\* A graph of three packages, one of them without dependencies, another
\* with two dependents, went through the round trip.
C9_Witness ==
    /\ Restored
    /\ Len(graph.packages) = 3
    /\ \E k \in NodeKeys(graph) : Targets(graph.edges, k) = {}
    /\ \E k \in NodeKeys(graph) : Cardinality(Targets(call.out.reverseEdges, k)) = 2

\* C10: every node of the graph deserializeGraph returns has empty
\* devDependencies and empty localDependencies, whatever the serialized
\* graph held and whatever forward edges the node has after the restore.
C10_RestoreEmptiesDevAndLocal ==
    Restored =>
        \A i \in 1..Len(call.out.packages) :
            /\ call.out.packages[i][2].devDependencies = <<>>
            /\ call.out.packages[i][2].localDependencies = <<>>

\* The serialized graph had a node with development and local dependencies
\* whose forward edges are restored.
C10_Witness ==
    /\ Restored
    /\ \E k \in NodeKeys(graph) :
          /\ MapGet(graph.packages, k).devDependencies # <<>>
          /\ MapGet(graph.packages, k).localDependencies # <<>>
          /\ Targets(call.out.edges, k) # {}

-----------------------------------------------------------------------------
(* Claims about buildDependencyGraph.                                      *)

\* The declared dependencies of node n of g that are node keys of g.
DeclaredLocal(g, n) == Range(MapGet(g.packages, n).dependencies) \cap NodeKeys(g)

\* The manifest list of the finished build held some dependency that is no
\* package of the workspace, and some that is.
C11_Case ==
    /\ Built
    /\ \E n \in NodeKeys(graph) :
          /\ DeclaredLocal(graph, n) # {}
          /\ Range(MapGet(graph.packages, n).dependencies) \ NodeKeys(graph) # {}

\* C11: after buildDependencyGraph, localDependencies of every node n is
\* the intersection of n's declared dependencies with the keys of the final
\* node map, and edges[n] is that same set.
C11_LocalDepsAreDeclaredNodes ==
    Built =>
        \A n \in NodeKeys(graph) :
            /\ Range(MapGet(graph.packages, n).localDependencies) = DeclaredLocal(graph, n)
            /\ MapHas(graph.edges, n)
            /\ MapGet(graph.edges, n) = MapGet(graph.packages, n).localDependencies

C11_Witness == C11_Case

\* The missing-target entries of an error list.
MissingErrors(errors) == SelectSeq(errors, LAMBDA e : e[1] = "Package ")

\* The graph the caller holds was returned by buildDependencyGraph.
HoldsBuilt == origin = "buildDependencyGraph"

\* C12: in every graph returned by buildDependencyGraph, whatever the
\* manifest list, every local dependency and every forward-edge target of a
\* node is a declared dependency of that node and a node key, forward edges
\* start at node keys only, and validateGraph on such a graph reports no
\* missing-target error.
C12_BuiltEdgesStayInside ==
    HoldsBuilt =>
        /\ \A n \in NodeKeys(graph) :
              /\ Range(MapGet(graph.packages, n).localDependencies)
                    \subseteq DeclaredLocal(graph, n)
              /\ Targets(graph.edges, n) \subseteq DeclaredLocal(graph, n)
        /\ Range(MapKeys(graph.edges)) \subseteq NodeKeys(graph)
        /\ Validated => MissingErrors(call.out.errors) = <<>>

\* validateGraph ran on a built graph one of whose nodes declares a name
\* that is no node, and found a cycle but nothing missing.
C12_Witness ==
    /\ HoldsBuilt
    /\ Validated
    /\ \E n \in NodeKeys(graph) :
          Range(MapGet(graph.packages, n).dependencies) \ NodeKeys(graph) # {}
    /\ Len(call.out.errors) = 1

\* Forward edges of every node of g are its localDependencies.
EdgesAreLocalDeps(g) ==
    \A n \in NodeKeys(g) :
        Targets(g.edges, n) = Range(MapGet(g.packages, n).localDependencies)

\* C13 as stated: in the graph buildDependencyGraph returns and in the graph
\* deserializeGraph returns, forwardEdges[n] equals localDependencies of n.
C13_EdgesAreLocalDepsEverywhere ==
    /\ Built => EdgesAreLocalDeps(graph)
    /\ Restored => EdgesAreLocalDeps(call.out)

\* C13, amended: forwardEdges[n] equals localDependencies of n in the graph
\* buildDependencyGraph returns; in the graph deserializeGraph returns the
\* forward edges are those of the serialized graph while localDependencies
\* of every node is empty.
C13_EdgesAreLocalDepsWhenBuilt ==
    /\ Built => EdgesAreLocalDeps(graph)
    /\ Restored =>
          \A n \in NodeKeys(call.out) :
              /\ Targets(call.out.edges, n) = Targets(graph.edges, n)
              /\ MapGet(call.out.packages, n).localDependencies = <<>>

\* A built graph with an edge was serialized and restored.
C13_Witness ==
    /\ HoldsBuilt
    /\ Restored
    /\ \E n \in NodeKeys(call.out) : Targets(call.out.edges, n) # {}

\* C14 as stated: after buildDependencyGraph a node's own name is never in
\* its localDependencies nor among its forward edges.
C14_NeverOwnName ==
    Built =>
        \A n \in NodeKeys(graph) :
            /\ n \notin Range(MapGet(graph.packages, n).localDependencies)
            /\ n \notin Targets(graph.edges, n)

\* C14, amended: after buildDependencyGraph a node's localDependencies is
\* the set of its declared names that are names of nodes of the graph, the
\* node itself included: its own name is in its localDependencies and in
\* its forward edges exactly when its manifest declares it.
C14_OwnNameWhenDeclared ==
    Built =>
        \A n \in NodeKeys(graph) :
            LET node == MapGet(graph.packages, n)
            IN  /\ Range(node.localDependencies) =
                      {d \in Range(node.dependencies) :
                          \E m \in NodeKeys(graph) : d = m}
                /\ n \in Range(node.localDependencies) <=> n \in Range(node.dependencies)
                /\ n \in Targets(graph.edges, n) <=> n \in Range(node.dependencies)

\* A manifest of the finished build declared its own package name.
C14_Witness ==
    /\ Built
    /\ \E n \in NodeKeys(graph) : n \in Range(MapGet(graph.packages, n).dependencies)

\* C15: when several manifests of the list declare one name the build
\* succeeds with exactly one node of that name, whose version, path and
\* dependency sets are those parsed from the last such manifest, and whose
\* local dependencies and edges are computed from that manifest only.
C15_LastManifestWins ==
    Built =>
        /\ NodeKeys(graph) = DOMAIN call.arg.last
        /\ Len(graph.packages) <= call.arg.parsed
        /\ \A name \in DOMAIN call.arg.last :
              LET node == MapGet(graph.packages, name)
                  info == parsePackageJson(call.arg.last[name]).info
              IN  /\ Occurrences(MapKeys(graph.packages), name) = 1
                  /\ node.name = name
                  /\ node.version = info.version
                  /\ node.path = info.path
                  /\ node.dependencies = info.dependencies
                  /\ node.devDependencies = info.devDependencies
                  /\ Range(node.localDependencies) =
                        Range(info.dependencies) \cap NodeKeys(graph)
                  /\ Targets(graph.edges, name) =
                        Range(info.dependencies) \cap NodeKeys(graph)

\* Three manifests, two of them of package "a", the last one the vendored
\* copy without a version; the build returned a graph of two nodes.
C15_Witness ==
    /\ Built
    /\ call.arg.parsed = 3
    /\ Len(graph.packages) = 2
    /\ MapHas(graph.packages, "a")
    /\ MapGet(graph.packages, "a").path = <<"vendor", "a">>
    /\ MapGet(graph.packages, "a").version = "0.0.0"

\* buildDependencyGraph ended with the error of a rejected manifest.
BuildFailed == call.op = "buildDependencyGraph" /\ ~call.ok

\* C16: when parsePackageJson rejects a manifest of the list,
\* buildDependencyGraph ends with that error and the caller holds no graph,
\* however many manifests were parsed before; nothing of the call remains
\* in progress, so neither the second pass nor buildReverseGraph runs.
C16_ParseFailureAbortsBuild ==
    BuildFailed =>
        /\ ~parsePackageJson(call.arg.rejected).ok
        /\ call.out = parsePackageJson(call.arg.rejected).error
        /\ graph = NoGraph
        /\ origin = "none"
        /\ building = Idle

\* The third manifest of the list was rejected after two were parsed.
C16_Witness ==
    /\ BuildFailed
    /\ call.arg.parsed = 2
    /\ DOMAIN call.arg.last # {}

-----------------------------------------------------------------------------
(* Claims about validateGraph.                                             *)

\* The (source, target) pairs of forwardEdges whose target is no node key.
MissingPairs(g) ==
    {p \in Names \X Names : p[2] \in Targets(g.edges, p[1]) /\ p[2] \notin NodeKeys(g)}

\* C17: validateGraph does not throw: on every graph, cyclic ones and ones
\* with edges to names that are no nodes included, it returns a record
\* {valid, errors}, and when topologicalSort throws on the graph the message
\* of that error is an entry of errors.
C17_ValidateReturnsResult ==
    Validated =>
        /\ DOMAIN call.out = {"valid", "errors"}
        /\ call.out.valid \in BOOLEAN
        /\ call.out.errors \in Seq(Seq(STRING))
        /\ ~topologicalSort(graph).ok =>
              topologicalSort(graph).message \in Range(call.out.errors)

\* validateGraph returned on a cyclic graph that also has a missing target.
C17_Witness ==
    /\ Validated
    /\ HasCycle(graph)
    /\ MissingPairs(graph) # {}
    /\ DOMAIN call.out = {"valid", "errors"}

\* C18: validateGraph reports exactly one missing-target error for each
\* pair (source, target) of forwardEdges whose target is no node key, the
\* error names the source and the target, no other missing-target error is
\* reported, and valid is false when there is such a pair.
C18_OneErrorPerMissingPair ==
    Validated =>
        LET missing == MissingErrors(call.out.errors)
        IN  /\ \A p \in MissingPairs(graph) :
                  /\ Occurrences(call.out.errors, MissingMessage(p[1], p[2])) = 1
                  /\ Contains(MissingMessage(p[1], p[2]), p[1])
                  /\ Contains(MissingMessage(p[1], p[2]), p[2])
            /\ \A i \in 1..Len(missing) : <<missing[i][2], missing[i][4]>> \in MissingPairs(graph)
            /\ Len(missing) = Cardinality(MissingPairs(graph))
            /\ MissingPairs(graph) # {} => ~call.out.valid

\* One package has two edges to names that are no nodes.
C18_Witness ==
    /\ Validated
    /\ \E s \in Names : Cardinality({p \in MissingPairs(graph) : p[1] = s}) = 2
    /\ ~call.out.valid

\* C19: valid is true exactly when errors is empty, and errors is empty
\* exactly when every forward-edge target is a node key and topologicalSort
\* succeeds on the same graph.
C19_ValidIffNoErrors ==
    Validated =>
        /\ call.out.valid <=> call.out.errors = <<>>
        /\ call.out.errors = <<>> <=>
              (MissingPairs(graph) = {} /\ topologicalSort(graph).ok)

\* An acyclic graph with a missing target: errors is not empty and valid
\* is false.
C19_Witness ==
    /\ Validated
    /\ topologicalSort(graph).ok
    /\ MissingPairs(graph) # {}
    /\ ~call.out.valid

\* C20: errors holds the missing-target errors first and then, when
\* topologicalSort throws on the graph, one more entry, the last, which is
\* the message of that error; there is never more than one cycle error, and
\* a cyclic graph without missing targets has exactly one error.
C20_MissingFirstThenOneCycle ==
    Validated =>
        LET errors == call.out.errors
            n == Cardinality(MissingPairs(graph))
            sorted == topologicalSort(graph)
        IN  /\ Len(errors) = n + (IF sorted.ok THEN 0 ELSE 1)
            /\ \A i \in 1..Len(errors) : i <= n => errors[i][1] = "Package "
            /\ ~sorted.ok => errors[Len(errors)] = sorted.message
            /\ Cardinality({i \in 1..Len(errors) :
                               Contains(errors[i], "Circular dependency")}) <= 1
            /\ (HasCycle(graph) /\ n = 0) => Len(errors) = 1

\* Two cycles (two self-loops) and a missing target in one graph.
C20_Witness ==
    /\ Validated
    /\ Cardinality({x \in Names : x \in Targets(graph.edges, x)}) >= 2
    /\ MissingPairs(graph) # {}
    /\ Len(call.out.errors) = Cardinality(MissingPairs(graph)) + 1

-----------------------------------------------------------------------------
(* Claims about what the analysis functions return and leave alone.        *)

\* C21 as stated: the order topologicalSort returns only holds node keys,
\* each once, so its length is the number of nodes, also when a forward
\* edge names a target that is no node.
C21_OrderIsNodePermutation ==
    (Sorted /\ call.out.ok) =>
        /\ Range(call.out.order) \subseteq NodeKeys(graph)
        /\ \A k \in NodeKeys(graph) : Occurrences(call.out.order, k) = 1
        /\ Len(call.out.order) = Len(graph.packages)

\* The functions that take a graph or an edge map and only read it.
AnalysisOps ==
    {"topologicalSort", "findAllDependents", "validateGraph", "serializeGraph",
     "buildReverseGraph"}

\* C22: a step in which topologicalSort (returning or throwing),
\* findAllDependents, validateGraph, serializeGraph or buildReverseGraph
\* completes leaves packages, edges and reverseEdges of the graph as they
\* were, and the edge map given to buildReverseGraph is still graph.edges.
C22_AnalysisLeavesGraph ==
    [][(call = NoCall /\ call'.op \in AnalysisOps) =>
          /\ graph'.packages = graph.packages
          /\ graph'.edges = graph.edges
          /\ graph'.reverseEdges = graph.reverseEdges
          /\ call'.op = "buildReverseGraph" => call'.arg = graph.edges]_vars

\* topologicalSort threw on a graph with edges, which the caller still holds.
C22_Witness ==
    /\ Sorted
    /\ ~call.out.ok
    /\ \E x \in Names : Targets(graph.edges, x) # {}
    /\ graph.reverseEdges = buildReverseGraph(graph.edges)

-----------------------------------------------------------------------------
(* Claim about scanForPackageJsonFiles.                                    *)

\* The scan returned and no package.json was written or removed meanwhile.
Scanned == scanning # Idle /\ scanning.pc = "returned" /\ scanning.changes = 0

\* The package.json paths of d in directory and beneath it, at any depth,
\* as paths from directory.
Beneath(d, directory) ==
    {join(directory, relative(directory, m)) : m \in
        {n \in d.manifests :
            LET Under(at, root) ==
                    \/ at = root
                    \/ /\ Len(at) > Len(root)
                       /\ SubSeq(at, 1, Len(root) + 1) = root \o <<"/">>
            IN  Under(dirname(n), resolve(directory))}}

\* C23 as stated: the scan returns the package.json path of the directory
\* given and of every directory at any depth beneath it that holds a
\* package.json and matches no exclusion pattern.
C23_ScanIsRecursive ==
    Scanned =>
        Range(scanning.packageJsonPaths) =
            {m \in Beneath(disk, scanning.directory) :
                Kept(shouldExclude(m, scanning.excludedPatterns))}

-----------------------------------------------------------------------------
(* Claim about the two passes of buildDependencyGraph.                     *)

\* The names that manifest file declares as dependencies, of any type.
DeclaredBy(file) == Range(parsePackageJson(file).info.dependencies)

\* C24: while manifests of the list are still being parsed no package has
\* local dependencies and no edge exists; in the graph returned, a declared
\* dependency is a local dependency and a forward edge whenever its name is
\* the name of some manifest of the list, one that came later included, so
\* that nodes, forward edges and reverse edges are functions of the set of
\* manifests (of the last manifest of each name), not of their order.
C24_ResolutionAfterAllParsed ==
    /\ building # Idle =>
          /\ graph = NoGraph
          /\ \A i \in 1..Len(building.packages) :
                building.packages[i][2].localDependencies = <<>>
    /\ Built =>
          LET last == call.arg.last
              Local(n) == IF n \in DOMAIN last THEN DeclaredBy(last[n]) \cap DOMAIN last
                          ELSE {}
          IN  /\ NodeKeys(graph) = DOMAIN last
              /\ \A n \in Names :
                    /\ Targets(graph.edges, n) = Local(n)
                    /\ Targets(graph.reverseEdges, n) = {s \in Names : n \in Local(s)}
                    /\ n \in DOMAIN last =>
                          Range(MapGet(graph.packages, n).localDependencies) = Local(n)

\* Two manifests with distinct names; the one parsed first depends on the
\* one parsed second, and the edge is there.
C24_Witness ==
    /\ Built
    /\ call.arg.parsed = 2
    /\ Len(graph.packages) = 2
    /\ graph.packages[2][1] \in Targets(graph.edges, graph.packages[1][1])
    /\ graph.packages[1][1] \in Targets(graph.reverseEdges, graph.packages[2][1])

-----------------------------------------------------------------------------
(* Claim about the marks of topologicalSort.                               *)

\* The statement-by-statement call ends as topologicalSort(graph) does.
SortStepsAgree == Sorted => call.out = topologicalSort(graph)

\* The marks at one point of the call.
SortMarks ==
    sorting # Idle =>
        LET st == sorting.st
        IN  /\ st.visiting \cap st.visited = {}
            /\ \A n \in st.visited : Targets(graph.edges, n) \subseteq st.visited
            /\ Range(st.result) = st.visited
            /\ Len(st.result) = Cardinality(st.visited)

\* How the marks change in one step.
SortMarksStep ==
    (sorting # Idle /\ sorting' # Idle) =>
        LET st == sorting.st
            st2 == sorting'.st
        IN  /\ st.visited \subseteq st2.visited
            /\ st.visiting \subseteq st2.visiting \cup st2.visited
            /\ st2.visited \ st.visited \subseteq st.visiting
            /\ \/ st2.result = st.result /\ st2.visited = st.visited
               \/ \E n \in st.visiting :
                     /\ st2.visited = st.visited \cup {n}
                     /\ st2.result = Append(st.result, n)

\* C25: at every step of topologicalSort the visiting and visited sets are
\* disjoint, a name only goes from unvisited to visiting to visited and
\* never back, every forward-edge target of a visited name is visited, and
\* result holds exactly the visited names, each once, in the order in which
\* they became visited.
C25_ThreeStateMarking == []SortMarks /\ [][SortMarksStep]_vars

\* Two visits are in progress, one package is already done, and the
\* innermost visit is about to finish.
C25_Witness ==
    /\ sorting # Idle
    /\ Len(sorting.stack) = 2
    /\ Cardinality(sorting.st.visiting) = 2
    /\ Cardinality(sorting.st.visited) = 1
    /\ sorting.stack[2].next > Len(sorting.stack[2].deps)

-----------------------------------------------------------------------------
(* Claim about the build order after a round trip.                         *)

RestoredSorted == call.op = "topologicalSort of restored"

\* C26: topologicalSort of deserializeGraph(serializeGraph(G)) returns the
\* sequence that topologicalSort(G) returns, or throws the cycle error with
\* the same package name when topologicalSort(G) throws.
C26_RoundTripKeepsBuildOrder ==
    RestoredSorted =>
        /\ call.out.ok = topologicalSort(graph).ok
        /\ call.out.ok => call.out.order = topologicalSort(graph).order
        /\ ~call.out.ok => call.out.message = topologicalSort(graph).message

\* The restored graph has a package with two dependencies and sorts to an
\* order of three packages that is not the key order of the node map.
C26_Witness ==
    /\ RestoredSorted
    /\ call.out.ok
    /\ Len(call.out.order) = 3
    /\ call.out.order # MapKeys(graph.packages)
    /\ \E n \in Names : Cardinality(Targets(call.arg.edges, n)) = 2

-----------------------------------------------------------------------------
(* Claim about the traversal of findAllDependents.                         *)

\* The statement-by-statement call ends as findAllDependents does.
TraverseStepsAgree ==
    FoundDependents => call.out = findAllDependents(call.arg, graph)

\* No package had its reverse edges read twice.
ExpandedOnce ==
    traversing # Idle =>
        \A i, j \in 1..Len(traversing.expanded) :
            traversing.expanded[i] = traversing.expanded[j] => i = j

\* The loop iterations and returns that the activations on the stack still
\* have to make.
RECURSIVE PendingSteps(_, _)
PendingSteps(stack, i) ==
    IF i > Len(stack) THEN 0
    ELSE (Len(stack[i].directDependents) + 1 - stack[i].next) + 1
         + PendingSteps(stack, i + 1)

\* A bound on the steps the call can still take: every unmarked name may
\* still be expanded once, which costs at most one iteration per name and
\* one return.
TraverseMeasure ==
    IF traversing = Idle THEN 0
    ELSE Cardinality(Names \ traversing.visited) * (Cardinality(Names) + 2)
         + PendingSteps(traversing.stack, 1)
         + (IF traversing.called THEN 0 ELSE 1)
         + (IF call = NoCall THEN 1 ELSE 0)

\* C27: on every graph, also one whose reverse edges have cycles,
\* findAllDependents returns (every step of the call lowers a natural
\* number, and the call can take a step as long as it has not returned),
\* and during the call the reverse edges of a name are read at most once.
C27_TraversalTerminates ==
    /\ [](FoundDependents \/ ENABLED NextDependents)
    /\ [][TraverseMeasure' < TraverseMeasure]_vars
    /\ []ExpandedOnce

\* The call returned on a graph where the start package depends on itself
\* through another package; both were expanded.
C27_Witness ==
    /\ FoundDependents
    /\ traversing # Idle
    /\ OnCycle(graph, call.arg)
    /\ call.arg \notin Targets(graph.edges, call.arg)
    /\ Len(traversing.expanded) >= 2

-----------------------------------------------------------------------------
(* Claim about dependents and the build order.                             *)

\* fullOrder.filter(pkg => affected.has(pkg)) of the README's
\* incrementalBuild, for one changed package.
AffectedOrder(order, changed, dependents) ==
    SelectSeq(order, LAMBDA pkg : pkg = changed \/ pkg \in Range(dependents))

\* C28: on an acyclic graph whose reverseEdges is the transpose of its
\* forward edges, every package of findAllDependents(x, graph), x a node,
\* comes strictly after x in topologicalSort(graph), so the build order
\* filtered to x and its dependents starts with x.
C28_DependentsBuildAfter ==
    (FoundDependents /\ ~HasCycle(graph) /\ Transposed(graph)
        /\ call.arg \in NodeKeys(graph)) =>
        LET sorted == topologicalSort(graph)
        IN  /\ sorted.ok
            /\ IndexOf(sorted.order, call.arg) > 0
            /\ \A d \in Range(call.out) :
                  IndexOf(sorted.order, d) > IndexOf(sorted.order, call.arg)
            /\ AffectedOrder(sorted.order, call.arg, call.out)[1] = call.arg
            /\ Len(AffectedOrder(sorted.order, call.arg, call.out)) = Len(call.out) + 1

\* The changed package is the last key of the node map and has a direct and
\* a transitive dependent, both of them earlier keys.
C28_Witness ==
    /\ FoundDependents
    /\ ~HasCycle(graph)
    /\ Len(graph.packages) = 3
    /\ call.arg = graph.packages[3][1]
    /\ Len(call.out) = 2
    /\ Cardinality(Targets(graph.reverseEdges, call.arg)) = 1

-----------------------------------------------------------------------------
(* Claim about concurrent builds.                                          *)

\* What a finished call returned or threw, as buildDependencyGraph reports it.
Outcome(result) ==
    IF result.ok THEN [ok |-> TRUE, graph |-> result.graph]
    ELSE [ok |-> FALSE, error |-> result.error]

\* C29: however the parse steps of two buildDependencyGraph calls
\* interleave, each call ends as it does when run alone on its own list,
\* with the same graph or with the same error, its package map only ever
\* holds the packages of its own manifests, and the map it returns as
\* graph.packages is that map.
C29_ConcurrentBuildsIndependent ==
    builds # Idle =>
        \A i \in 1..2 :
            /\ builds[i].result # Pending =>
                  Outcome(builds[i].result) = buildDependencyGraph(builds[i].files)
            /\ Range(MapKeys(builds[i].packages)) =
                  {builds[i].files[k].json.name : k \in 1..builds[i].parsed}
            /\ (builds[i].result # Pending /\ builds[i].result.ok) =>
                  builds[i].packages = builds[i].result.graph.packages

\* The first call returned a graph with the edge a -> b while the second,
\* which builds another package a, is suspended between its two manifests.
C29_Witness ==
    /\ builds # Idle
    /\ builds[1].result # Pending
    /\ builds[1].result.ok
    /\ "b" \in Targets(builds[1].result.graph.edges, "a")
    /\ builds[2].result = Pending
    /\ builds[2].parsed = 1
    /\ Len(builds[2].files) = 2
    /\ MapHas(builds[2].packages, "a")
    /\ builds[2].packages # builds[1].packages

ReversedTwice == call.op = "buildReverseGraph twice"

EmptyKeys(E) == {k \in Range(MapKeys(E)) : Targets(E, k) = {}}

SameMap(E1, E2) ==
    /\ Range(MapKeys(E1)) = Range(MapKeys(E2))
    /\ \A k \in Range(MapKeys(E1)) : Targets(E1, k) = Targets(E2, k)

\* C30: buildReverseGraph(buildReverseGraph(E)) holds exactly the (source,
\* target) pairs of E, its keys are the keys of E whose set is not empty,
\* each once, and it is the same map as E exactly when no key of E maps to
\* the empty set.
C30_ReverseTwiceDropsEmptyKeys ==
    ReversedTwice =>
        /\ \A s \in Names, t \in Names :
               t \in Targets(call.out, s) <=> t \in Targets(call.arg, s)
        /\ Range(MapKeys(call.out)) = Range(MapKeys(call.arg)) \ EmptyKeys(call.arg)
        /\ Len(call.out) = Cardinality(Range(MapKeys(call.out)))
        /\ SameMap(call.out, call.arg) <=> EmptyKeys(call.arg) = {}

\* An edge map with an edge and with a key whose set is empty has been
\* reversed twice.
C30_Witness ==
    /\ ReversedTwice
    /\ EmptyKeys(call.arg) # {}
    /\ \E s \in Names : Targets(call.arg, s) # {}

\* An edge map without an empty set has been reversed twice.
C30_WitnessEqual ==
    /\ ReversedTwice
    /\ call.arg # <<>>
    /\ EmptyKeys(call.arg) = {}

=============================================================================
